---- MODULE Spec2Model ----
(***************************************************************************)
(* Run iterator of the orchestration core:                                 *)
(*   dagster/_core/execution/api.py                                        *)
(*     execute_run_iterator / execute_run  (build the orchestration        *)
(*       context and hand it to ExecuteRunWithPlanIterable)                *)
(*     ExecuteRunWithPlanIterable.__iter__ (prepare context, run the       *)
(*       iterator, shut the context down)                                  *)
(*     pipeline_execution_iterator         (start event, executor stream,  *)
(*       terminal event)                                                   *)
(* Both generators are driven by one consumer: every action is one call of *)
(* the consumer (next() or close()) or the part of such a call between two *)
(* places of the generator code.  pc is the place where the generators     *)
(* stand.                                                                  *)
(***************************************************************************)
EXTENDS Integers, Sequences, FiniteSets, TLC

\* ------------------------------------------------------------------ bounds
\* Longest executor stream explored (number of events the executor yields).
MaxEvents == 2
\* Most events yielded by prepare_context(), and by shutdown_context().
MaxContextEvents == 1

\* ----------------------------------------------------------------- values
None == "None"

\* A DagsterEvent: its type, its step key, and for a run failure the message
\* and the step keys the message names.
Ev(t, k) == [event_type |-> t, step_key |-> k, message |-> "", steps |-> <<>>]

RunEv(t, m, fs) == [event_type |-> t, step_key |-> None, message |-> m, steps |-> fs]

\* What the executor's stream can hold, for a plan of three steps s1, s2, s3:
\* step events carry a step key, an engine event carries none, a
\* resource-initialization failure may or may not carry one.
ExecutorEvents ==
    {Ev(t, k) : t \in {"STEP_SUCCESS", "STEP_FAILURE"}, k \in {"s1", "s2"}}
      \cup {Ev("RESOURCE_INIT_FAILURE", k) : k \in {"s3", None}}
      \cup {Ev("ENGINE_EVENT", None)}

\* What iterating the executor can raise.
ExecutorExceptions == {"KeyboardInterrupt", "DagsterExecutionInterruptedError", "Exception"}

Interruptions == {"KeyboardInterrupt", "DagsterExecutionInterruptedError"}

\* What instance.get_run_by_id can return: no run, or the run in a status.
ReloadedRuns == {None, "CANCELING", "CANCELED", "FAILURE", "STARTED"}

\* What the instance may hold for the run when the finally block is entered
\* without an interruption: the run is executing, or another process has
\* marked it canceled or failed meanwhile.
StatusesAtFinally == {"STARTED", "CANCELED", "FAILURE"}

\* The run events that end a run.
TerminalTypes == {"PIPELINE_SUCCESS", "PIPELINE_FAILURE", "PIPELINE_CANCELED"}

IsTerminal(e) == e.event_type \in TerminalTypes

is_step_failure(e) == e.event_type = "STEP_FAILURE"

is_resource_init_failure(e) == e.event_type = "RESOURCE_INIT_FAILURE"

\* Entry points that build the orchestration context.
Entries == {"execute_run_iterator", "execute_run"}

VARIABLES
    entry,                    \* the api function that built the iterable
    raise_on_error,           \* pipeline_context.raise_on_error
    resume_from_failure,      \* pipeline_context.resume_from_failure
    pc,                       \* where the generators stand
    prepared,                 \* events prepare_context() has yielded
    pipeline_context,         \* self.pipeline_context is set (TRUE) or None (FALSE)
    shutdown_n,               \* events taken from shutdown_context()
    iterable_generator_closed,\* generator_closed of __iter__
    emitted,                  \* what __iter__ yielded, by origin
    stream,                   \* the events the executor has yielded
    stream_end,               \* how the executor stream ended
    event,                    \* the local `event`
    failed_steps,
    pipeline_exception_info,
    pipeline_canceled_info,
    generator_closed,         \* generator_closed of pipeline_execution_iterator
    reloaded_run,             \* status of the run returned by get_run_by_id
    persisted_status,         \* status the instance holds for the run at the finally block
    run_will_resume,          \* instance.run_will_resume(run_id)
    yielded,                  \* what pipeline_execution_iterator yielded
    pending,                  \* exception in flight while a finally block yields
    iterator_raised,          \* exception that left pipeline_execution_iterator
    raised,                   \* exception that reached the consumer from next()
    closed_at,                \* the yield point at which the consumer closed
    emitted_at_close,         \* how many events __iter__ had yielded by then
    close_result,             \* result of the consumer's close()
    dagster_run,              \* the DagsterRun object passed to the api function
    pipeline,                 \* the IPipeline passed to the api function
    execution_plan_snapshot,  \* what instance.get_execution_plan_snapshot returns
    run_monitoring_enabled,   \* instance.run_monitoring_enabled
    instance_run_status,      \* status the instance holds for the run
    instance_events,          \* events reported to the instance by the api function
    entry_pc,                 \* where the api function stands
    entry_gen,                \* the generator execute_run_iterator returned
    entry_raised,             \* exception raised by the api function
    execution_plan,           \* result of _get_execution_plan_from_run
    asset_graph,              \* the asset graph of the workspace
    asset_backfill_data,      \* the AssetBackfillData stored with the backfill
    backfill_status,          \* BulkActionStatus of the stored backfill
    instance_runs,            \* the runs of the instance, by run id
    event_log,                \* the materialization records, by storage id
    backfill_pc,              \* where execute_asset_backfill_iteration stands
    iterations,               \* iterations of the backfill started so far
    inner,                    \* locals of the last execute_asset_backfill_iteration_inner
    submitted,                \* run requests of the iteration already submitted
    backfill_tags,            \* backfill.tags
    pipeline_and_execution_plan_cache, \* selector id -> what was fetched for it
    code_location_calls,      \* selectors passed to get_external_pipeline in the iteration
    serialized_asset_backfill_data, \* backfill.serialized_asset_backfill_data
    repository_definitions,   \* the list given to build_caching_repository_data_from_list
    default_executor_def,     \* a default executor is given
    default_logger_defs,      \* default loggers are given
    builder_pc,               \* where build_caching_repository_data_from_list stands
    next_definition,          \* index of the next definition of the list
    schedule_and_sensor_names,
    pipelines_or_jobs,
    coerced_graphs,
    unresolved_jobs,
    schedules,
    sensors,
    builder_raised,           \* the error build_caching_repository_data_from_list raised
    repository_data,          \* the CachingRepositoryData returned
    subset_pc,                \* where the narrowing of a definition stands
    parent_def,               \* the job or pipeline that is narrowed
    op_selection,             \* resolved_op_selection_dict, or nodes_to_execute
    sub_graph,                \* what get_subselected_graph_definition returned
    subset_def,               \* the definition the narrowing returned
    subset_raised,            \* the error the narrowing raised
    resubset_def,             \* the definition narrowing subset_def returned
    resubset_raised,          \* the error narrowing subset_def raised
    storage_pc,               \* where each thread stands in its call on the storage
    storage_conn,             \* self._conn
    storage_engine,           \* self._engine
    connections,              \* the connections created so far: open or closed
    created_since_dispose,    \* connections created since the last dispose
    yielded_conn,             \* what the call of each thread was given as connection
    schema_pc,                \* where each thread stands in get_run_config_schema
    cached_run_config_schemas,\* self._cached_run_config_schemas
    created_schemas,          \* the schemas _create_run_config_schema has made, by mode
    schema_stores,            \* how often the cache entry of each mode was assigned
    schema_returns,           \* what get_run_config_schema has returned, by mode
    handlers,                 \* self._handlers: the callbacks watching each run id
    unwatched,                \* the watches not in force: never set up, or ended since
    storage_id,               \* self._storage_id
    stored_events,            \* run ids of the events the event log holds
    deliveries,               \* the calls of callbacks made by the last store_event
    store_event_raised,       \* an exception left store_event
    run_records,              \* the runs of the instance that _reexecute_job reads and creates
    reexecution_options,      \* what ReexecutionOptions.from_failure returned
    reexecution_raised        \* the check that failed in from_failure or _reexecute_job

vars == <<entry, raise_on_error, resume_from_failure, pc, prepared, pipeline_context,
          shutdown_n, iterable_generator_closed, emitted, stream, stream_end, event,
          failed_steps, pipeline_exception_info, pipeline_canceled_info,
          generator_closed, reloaded_run, persisted_status, run_will_resume, yielded, pending,
          iterator_raised, raised, closed_at, emitted_at_close, close_result,
          dagster_run, pipeline, execution_plan_snapshot, run_monitoring_enabled,
          instance_run_status, instance_events, entry_pc, entry_gen, entry_raised,
          execution_plan, asset_graph, asset_backfill_data, backfill_status,
          instance_runs, event_log, backfill_pc, iterations,
          inner, submitted, backfill_tags, pipeline_and_execution_plan_cache,
          code_location_calls, serialized_asset_backfill_data,
          repository_definitions, default_executor_def, default_logger_defs, builder_pc,
          next_definition, schedule_and_sensor_names, pipelines_or_jobs, coerced_graphs,
          unresolved_jobs, schedules, sensors, builder_raised, repository_data,
          subset_pc, parent_def, op_selection, sub_graph, subset_def, subset_raised,
          resubset_def, resubset_raised,
          storage_pc, storage_conn, storage_engine, connections, created_since_dispose,
          yielded_conn, schema_pc, cached_run_config_schemas, created_schemas,
          schema_stores, schema_returns, handlers, unwatched, storage_id, stored_events, deliveries,
          store_event_raised, run_records, reexecution_options, reexecution_raised>>

ctxVars == <<entry, raise_on_error, resume_from_failure>>

\* state of the api functions up to the construction of the iterable
entryVars == <<dagster_run, pipeline, execution_plan_snapshot, run_monitoring_enabled,
               instance_run_status, instance_events, entry_pc, entry_gen, entry_raised,
               execution_plan>>

\* state of the asset backfill
backfillVars == <<asset_graph, asset_backfill_data, backfill_status, instance_runs,
                  event_log, backfill_pc, iterations, inner,
                  submitted, backfill_tags, pipeline_and_execution_plan_cache,
                  code_location_calls, serialized_asset_backfill_data>>

\* what the run iterator leaves alone
\* state of build_caching_repository_data_from_list
repoVars == <<repository_definitions, default_executor_def, default_logger_defs, builder_pc,
              next_definition, schedule_and_sensor_names, pipelines_or_jobs,
              coerced_graphs, unresolved_jobs, schedules, sensors, builder_raised,
              repository_data>>

\* state of the narrowing of a job or pipeline to a selection
subsetVars == <<subset_pc, parent_def, op_selection, sub_graph, subset_def, subset_raised,
                resubset_def, resubset_raised>>

\* state of an in-memory storage and its connection
connVars == <<storage_pc, storage_conn, storage_engine, connections, created_since_dispose,
              yielded_conn>>

\* state of the watches of an in-memory event log storage
watchVars == <<handlers, unwatched, storage_id, stored_events, deliveries, store_event_raised>>

\* state of the storages of the instance
storageVars == <<connVars, watchVars>>

\* state of the run config schema cache of a definition
schemaVars == <<schema_pc, cached_run_config_schemas, created_schemas, schema_stores,
                schema_returns>>

\* state of the re-executions of a job
reexecutionVars == <<run_records, reexecution_options, reexecution_raised>>

\* state of the definitions layer
defsVars == <<repoVars, subsetVars, storageVars, schemaVars, reexecutionVars>>

restVars == <<entryVars, backfillVars, defsVars>>

\* locals of pipeline_execution_iterator and what it has done
iterVars == <<stream, stream_end, event, failed_steps, pipeline_exception_info,
              pipeline_canceled_info, generator_closed, reloaded_run, persisted_status, run_will_resume,
              yielded, iterator_raised>>


\* ------------------------------------------------- the code, as operators

\* execute_run_iterator builds the context with raise_on_error=False and its
\* own resume_from_failure argument; execute_run passes its raise_on_error
\* argument and leaves resume_from_failure at its default.
ContextOf(e, arg) ==
    IF e = "execute_run_iterator"
      THEN [raise_on_error |-> FALSE, resume_from_failure |-> arg]
      ELSE [raise_on_error |-> arg, resume_from_failure |-> FALSE]

\* Variant: the start event is yielded whatever the flag.
YieldsStartAlways(resume) == TRUE

\* `if not pipeline_context.resume_from_failure: yield pipeline_start`
YieldsStart(resume) == ~resume

\* Variant: the resource-initialization branch is missing.
FailedStepsAfterStepFailureOnly(fs, e) ==
    IF is_step_failure(e) THEN Append(fs, e.step_key) ELSE fs

\* Variant: a later success of a step takes its key out again (the step
\* status is recomputed).
FailedStepsAfterRecomputed(fs, e) ==
    IF is_step_failure(e) THEN Append(fs, e.step_key)
    ELSE IF is_resource_init_failure(e) /\ e.step_key # None THEN Append(fs, e.step_key)
    ELSE IF e.event_type = "STEP_SUCCESS"
      THEN SelectSeq(fs, LAMBDA k : k # e.step_key)
    ELSE fs

\* The accumulator update of the loop body.
FailedStepsAfter(fs, e) ==
    IF is_step_failure(e) THEN Append(fs, e.step_key)
    ELSE IF is_resource_init_failure(e) /\ e.step_key # None THEN Append(fs, e.step_key)
    ELSE fs

\* Variant: the run failure event is yielded as soon as a step fails, and
\* the loop goes on.
ForwardedFailFast(e) ==
    IF is_step_failure(e)
      THEN <<e, RunEv("PIPELINE_FAILURE", "Steps failed", <<e.step_key>>)>>
      ELSE <<e>>

\* Variant: the start event is yielded inside the loop, after the event.
ForwardedThenStart(e) == <<e, RunEv("PIPELINE_START", "", <<>>)>>

\* `yield event`: what the loop body yields for an executor event.
Forwarded(e) == <<e>>

\* The try block left without an exception.
NoException ==
    [generator_closed |-> FALSE, pipeline_exception_info |-> None,
     pipeline_canceled_info |-> None]

\* The except clauses of pipeline_execution_iterator, in their order.
ExceptClause(exc) ==
    IF exc = "GeneratorExit"
      THEN [generator_closed |-> TRUE, pipeline_exception_info |-> exc,
            pipeline_canceled_info |-> None]
    ELSE IF exc \in Interruptions
      THEN [generator_closed |-> FALSE, pipeline_exception_info |-> None,
            pipeline_canceled_info |-> exc]
    ELSE [generator_closed |-> FALSE, pipeline_exception_info |-> exc,
          pipeline_canceled_info |-> None]

\* Variant: the except clauses re-raise whatever the flag.
ReraisedAlways(exc, roe) == exc

\* `if pipeline_context.raise_on_error: raise`, the same in every clause.
Reraised(exc, roe) == IF roe THEN exc ELSE None

\* Variant: the status of the reloaded run is not consulted; an
\* interruption always ends the run as canceled.
TerminalEventCanceled(canceled_info, exception_info, fs, reloaded, will_resume) ==
    IF canceled_info # None
      THEN RunEv("PIPELINE_CANCELED", "canceled", <<>>)
    ELSE IF exception_info # None
      THEN RunEv("PIPELINE_FAILURE", "An exception was thrown during execution.", <<>>)
    ELSE IF fs # <<>>
      THEN RunEv("PIPELINE_FAILURE", "Steps failed", fs)
    ELSE RunEv("PIPELINE_SUCCESS", "", <<>>)

\* Variant: the failure message names only the first failed step.
TerminalEventFirstStep(canceled_info, exception_info, fs, reloaded, will_resume) ==
    IF canceled_info # None THEN
        IF reloaded = "CANCELING"
          THEN RunEv("PIPELINE_CANCELED", "canceled", <<>>)
        ELSE IF reloaded = "CANCELED"
          THEN RunEv("ENGINE_EVENT", "cleaned up after forced cancel", <<>>)
        ELSE IF will_resume
          THEN RunEv("ENGINE_EVENT", "interrupted, run will be resumed", <<>>)
        ELSE IF reloaded = "FAILURE"
          THEN RunEv("ENGINE_EVENT", "interrupted, run already in failure", <<>>)
        ELSE RunEv("PIPELINE_FAILURE", "interrupted, treating as failure", <<>>)
    ELSE IF exception_info # None
      THEN RunEv("PIPELINE_FAILURE", "An exception was thrown during execution.", <<>>)
    ELSE IF fs # <<>>
      THEN RunEv("PIPELINE_FAILURE", "Steps failed", <<fs[1]>>)
    ELSE RunEv("PIPELINE_SUCCESS", "", <<>>)

\* Variant: the `elif failed_steps` branch is missing (the accumulator is
\* not consulted).
TerminalEventLastEvent(canceled_info, exception_info, fs, reloaded, will_resume) ==
    IF canceled_info # None THEN
        IF reloaded = "CANCELING"
          THEN RunEv("PIPELINE_CANCELED", "canceled", <<>>)
        ELSE IF reloaded = "CANCELED"
          THEN RunEv("ENGINE_EVENT", "cleaned up after forced cancel", <<>>)
        ELSE IF will_resume
          THEN RunEv("ENGINE_EVENT", "interrupted, run will be resumed", <<>>)
        ELSE IF reloaded = "FAILURE"
          THEN RunEv("ENGINE_EVENT", "interrupted, run already in failure", <<>>)
        ELSE RunEv("PIPELINE_FAILURE", "interrupted, treating as failure", <<>>)
    ELSE IF exception_info # None
      THEN RunEv("PIPELINE_FAILURE", "An exception was thrown during execution.", <<>>)
    ELSE RunEv("PIPELINE_SUCCESS", "", <<>>)

\* The event the finally block builds.
TerminalEvent(canceled_info, exception_info, fs, reloaded, will_resume) ==
    IF canceled_info # None THEN
        IF reloaded = "CANCELING"
          THEN RunEv("PIPELINE_CANCELED", "canceled", <<>>)
        ELSE IF reloaded = "CANCELED"
          THEN RunEv("ENGINE_EVENT", "cleaned up after forced cancel", <<>>)
        ELSE IF will_resume
          THEN RunEv("ENGINE_EVENT", "interrupted, run will be resumed", <<>>)
        ELSE IF reloaded = "FAILURE"
          THEN RunEv("ENGINE_EVENT", "interrupted, run already in failure", <<>>)
        ELSE RunEv("PIPELINE_FAILURE", "interrupted, treating as failure", <<>>)
    ELSE IF exception_info # None
      THEN RunEv("PIPELINE_FAILURE", "An exception was thrown during execution.", <<>>)
    ELSE IF fs # <<>>
      THEN RunEv("PIPELINE_FAILURE", "Steps failed", fs)
    ELSE RunEv("PIPELINE_SUCCESS", "", <<>>)

\* Variant: the terminal event is yielded also from a closed generator.
YieldsTerminalAlways(closed) == TRUE

\* `if not generator_closed: yield event` of pipeline_execution_iterator
YieldsTerminal(closed) == ~closed

\* `except GeneratorExit: generator_closed = True; raise` of __iter__
IterableExcept(exc) == exc = "GeneratorExit"

\* `if not generator_closed: yield event` of __iter__
ShutdownYieldsNever(closed) == FALSE

ShutdownYields(closed) == ~closed

\* ------------------------------------------------------------------- Init

\* The iterable as constructed: nothing has been asked of it.
IterableInit ==
    /\ pc = "not_started"
    /\ prepared = 0
    /\ pipeline_context = FALSE
    /\ shutdown_n = 0
    /\ iterable_generator_closed = FALSE
    /\ emitted = <<>>
    /\ stream = <<>>
    /\ stream_end = "open"
    /\ event = None
    /\ failed_steps = <<>>
    /\ pipeline_exception_info = None
    /\ pipeline_canceled_info = None
    /\ generator_closed = FALSE
    /\ reloaded_run = "NotLoaded"
    /\ persisted_status = "NotObserved"
    /\ run_will_resume = FALSE
    /\ yielded = <<>>
    /\ pending = None
    /\ iterator_raised = None
    /\ raised = None
    /\ closed_at = None
    /\ emitted_at_close = 0
    /\ close_result = "none"

\* How the api function was called.
CallInit ==
    /\ entry \in Entries
    /\ \E arg \in BOOLEAN :
         /\ raise_on_error = ContextOf(entry, arg).raise_on_error
         /\ resume_from_failure = ContextOf(entry, arg).resume_from_failure

\* The api function has handed a plan to the iterable; what it did before
\* is not followed here.
EntryPassed ==
    /\ dagster_run = None
    /\ pipeline = None
    /\ execution_plan_snapshot = None
    /\ run_monitoring_enabled = FALSE
    /\ instance_run_status = None
    /\ instance_events = <<>>
    /\ entry_pc = "passed"
    /\ entry_gen = None
    /\ entry_raised = None
    /\ execution_plan = None

\* No backfill is followed.
NoBackfill ==
    /\ asset_graph = None
    /\ asset_backfill_data = None
    /\ backfill_status = None
    /\ instance_runs = <<>>
    /\ event_log = <<>>
    /\ backfill_pc = "none"
    /\ iterations = 0
    /\ inner = None
    /\ submitted = 0
    /\ backfill_tags = <<>>
    /\ pipeline_and_execution_plan_cache = <<>>
    /\ code_location_calls = <<>>
    /\ serialized_asset_backfill_data = None

\* No repository is being built.
NoRepository ==
    /\ repository_definitions = <<>>
    /\ default_executor_def = FALSE
    /\ default_logger_defs = FALSE
    /\ builder_pc = "none"
    /\ next_definition = 1
    /\ schedule_and_sensor_names = {}
    /\ pipelines_or_jobs = <<>>
    /\ coerced_graphs = <<>>
    /\ unresolved_jobs = <<>>
    /\ schedules = <<>>
    /\ sensors = <<>>
    /\ builder_raised = <<>>
    /\ repository_data = <<>>

\* No definition is being narrowed.
NoSubset ==
    /\ subset_pc = "none"
    /\ parent_def = <<>>
    /\ op_selection = <<>>
    /\ sub_graph = <<>>
    /\ subset_def = <<>>
    /\ subset_raised = <<>>
    /\ resubset_def = <<>>
    /\ resubset_raised = <<>>

\* No thread uses the connection of an in-memory storage.
NoConnection ==
    /\ storage_pc = <<>>
    /\ storage_conn = <<>>
    /\ storage_engine = <<>>
    /\ connections = <<>>
    /\ created_since_dispose = 0
    /\ yielded_conn = <<>>

\* No event is stored and no run is watched.
NoWatch ==
    /\ handlers = <<>>
    /\ unwatched = {}
    /\ storage_id = 0
    /\ stored_events = <<>>
    /\ deliveries = <<>>
    /\ store_event_raised = FALSE

\* No in-memory storage is used.
NoStorage == NoConnection /\ NoWatch

\* No run config schema is asked for.
NoSchema ==
    /\ schema_pc = <<>>
    /\ cached_run_config_schemas = <<>>
    /\ created_schemas = <<>>
    /\ schema_stores = <<>>
    /\ schema_returns = {}

\* No run is re-executed.
NoReexecution ==
    /\ run_records = <<>>
    /\ reexecution_options = <<>>
    /\ reexecution_raised = <<>>

\* No definition is being built, narrowed or used.
NoDefinitions == NoRepository /\ NoSubset /\ NoStorage /\ NoSchema /\ NoReexecution

Init ==
    /\ CallInit
    /\ IterableInit
    /\ EntryPassed
    /\ NoBackfill
    /\ NoDefinitions

\* ---------------------------------------------------------------- __iter__

\* next(): prepare_context() yields one more event.
PrepareEvent ==
    /\ pc \in {"not_started", "prepare_yield"}
    /\ prepared < MaxContextEvents
    /\ prepared' = prepared + 1
    /\ emitted' = Append(emitted, "prepare")
    /\ pc' = "prepare_yield"
    /\ UNCHANGED <<restVars, ctxVars, iterVars, pipeline_context, shutdown_n,
                   iterable_generator_closed, pending, raised, closed_at, emitted_at_close, close_result>>

\* next(): prepare_context() is exhausted; get_context() gives the context,
\* or None after an initialization failure (which prepare_context reported
\* with an event).
PrepareDone ==
    /\ pc \in {"not_started", "prepare_yield"}
    /\ \E c \in BOOLEAN :
         /\ ~c => prepared > 0
         /\ pipeline_context' = c
         /\ pc' = IF c THEN "run_iterator" ELSE "shutdown"
    /\ UNCHANGED <<restVars, ctxVars, iterVars, prepared, shutdown_n, iterable_generator_closed,
                   emitted, pending, raised, closed_at, emitted_at_close, close_result>>

\* ---------------------------------------------- pipeline_execution_iterator

\* Leaving the try block: the except clause (h), then the finally block.
\* `closing` says the generator is being closed by the consumer.  The run
\* is reloaded only after an interruption, and run_will_resume is asked only
\* when the reloaded run is neither CANCELING nor CANCELED.
Terminate(closing, h, reraise) ==
    \E rl \in ReloadedRuns, wr \in BOOLEAN :
      /\ h.pipeline_canceled_info = None => (rl = None /\ wr = FALSE)
      /\ rl \in {"CANCELING", "CANCELED"} => wr = FALSE
      /\ reloaded_run' = IF h.pipeline_canceled_info = None THEN "NotLoaded" ELSE rl
      /\ \E st \in StatusesAtFinally :
           persisted_status' = IF h.pipeline_canceled_info = None THEN st ELSE rl
      /\ run_will_resume' = wr
      /\ generator_closed' = h.generator_closed
      /\ pipeline_exception_info' = h.pipeline_exception_info
      /\ pipeline_canceled_info' = h.pipeline_canceled_info
      /\ LET ev == TerminalEvent(h.pipeline_canceled_info, h.pipeline_exception_info,
                                 failed_steps, rl, wr)
         IN /\ event' = ev
            /\ IF YieldsTerminal(h.generator_closed)
                 THEN /\ yielded' = Append(yielded, ev)
                      /\ emitted' = Append(emitted, "iterator")
                      /\ pending' = reraise
                      /\ UNCHANGED <<iterator_raised, iterable_generator_closed>>
                      /\ IF closing
                           THEN pc' = "finished" /\ close_result' = "RuntimeError"
                           ELSE pc' = "terminal_yield" /\ close_result' = close_result
                 ELSE /\ UNCHANGED <<yielded, emitted>>
                      /\ iterator_raised' = reraise
                      /\ pc' = "shutdown"
                      /\ IF closing
                           THEN /\ pending' = "GeneratorExit"
                                /\ iterable_generator_closed' = IterableExcept("GeneratorExit")
                                /\ close_result' = "closing"
                           ELSE /\ pending' = reraise
                                /\ iterable_generator_closed' = IterableExcept(reraise)
                                /\ close_result' = close_result

\* One turn of `for event in executor.execute(...)`, up to the next yield.
LoopStep ==
    /\ stream_end = "open"
    /\ \/ \E e \in ExecutorEvents :
            /\ Len(stream) < MaxEvents
            /\ stream' = Append(stream, e)
            /\ event' = e
            /\ failed_steps' = FailedStepsAfter(failed_steps, e)
            /\ yielded' = yielded \o Forwarded(e)
            /\ emitted' = emitted \o [i \in 1..Len(Forwarded(e)) |-> "iterator"]
            /\ pc' = "event_yield"
            /\ UNCHANGED <<stream_end, pipeline_exception_info, pipeline_canceled_info,
                           generator_closed, reloaded_run, persisted_status, run_will_resume,
                           iterator_raised, iterable_generator_closed, pending,
                           close_result>>
       \/ /\ stream_end' = "exhausted"
          /\ Terminate(FALSE, NoException, None)
          /\ UNCHANGED <<stream, failed_steps>>
       \/ \E x \in ExecutorExceptions :
            /\ stream_end' = x
            /\ Terminate(FALSE, ExceptClause(x), Reraised(x, raise_on_error))
            /\ UNCHANGED <<stream, failed_steps>>
    /\ UNCHANGED <<restVars, ctxVars, prepared, pipeline_context, shutdown_n, raised, closed_at, emitted_at_close>>

\* next(): the iterator starts and yields the run start event.
IteratorStart ==
    /\ pc = "run_iterator"
    /\ YieldsStart(resume_from_failure)
    /\ yielded' = Append(yielded, RunEv("PIPELINE_START", "", <<>>))
    /\ emitted' = Append(emitted, "iterator")
    /\ pc' = "start_yield"
    /\ UNCHANGED <<restVars, ctxVars, prepared, pipeline_context, shutdown_n,
                   iterable_generator_closed, stream, stream_end, event, failed_steps,
                   pipeline_exception_info, pipeline_canceled_info, generator_closed,
                   reloaded_run, persisted_status, run_will_resume, pending, iterator_raised, raised,
                   closed_at, emitted_at_close, close_result>>

\* next(): the iterator starts when resuming: no start event, straight into the loop.
IteratorStartResumed ==
    /\ pc = "run_iterator"
    /\ ~YieldsStart(resume_from_failure)
    /\ LoopStep

\* next() at the yield of the start event or of a forwarded event.
NextInLoop ==
    /\ pc \in {"start_yield", "event_yield"}
    /\ LoopStep

\* next() at the yield of the terminal event: the iterator ends, re-raising
\* what its except clause raised.
NextAfterTerminal ==
    /\ pc = "terminal_yield"
    /\ iterator_raised' = pending
    /\ iterable_generator_closed' = IterableExcept(pending)
    /\ pc' = "shutdown"
    /\ UNCHANGED <<restVars, ctxVars, prepared, pipeline_context, shutdown_n, emitted, stream,
                   stream_end, event, failed_steps, pipeline_exception_info,
                   pipeline_canceled_info, generator_closed, reloaded_run, persisted_status,
                   run_will_resume, yielded, pending, raised, closed_at, emitted_at_close, close_result>>

\* ------------------------------------------------ __iter__, finally block

\* shutdown_context() gives one more event; it is yielded unless the
\* generator was closed.
ShutdownEvent ==
    /\ pc \in {"shutdown", "shutdown_yield"}
    /\ shutdown_n < MaxContextEvents
    /\ shutdown_n' = shutdown_n + 1
    /\ IF ShutdownYields(iterable_generator_closed)
         THEN /\ emitted' = Append(emitted, "shutdown")
              /\ IF close_result = "closing"
                   THEN pc' = "finished" /\ close_result' = "RuntimeError"
                   ELSE pc' = "shutdown_yield" /\ close_result' = close_result
         ELSE /\ emitted' = emitted
              /\ pc' = "shutdown"
              /\ close_result' = close_result
    /\ UNCHANGED <<restVars, ctxVars, iterVars, prepared, pipeline_context,
                   iterable_generator_closed, pending, raised, closed_at, emitted_at_close>>

\* shutdown_context() is exhausted: __iter__ ends, and the exception in
\* flight leaves it (a GeneratorExit ends the consumer's close()).
ShutdownDone ==
    /\ pc \in {"shutdown", "shutdown_yield"}
    /\ pc' = "finished"
    /\ IF close_result = "closing"
         THEN close_result' = "ok" /\ raised' = raised
         ELSE close_result' = close_result /\ raised' = pending
    /\ UNCHANGED <<restVars, ctxVars, iterVars, prepared, pipeline_context, shutdown_n,
                   iterable_generator_closed, emitted, pending, closed_at, emitted_at_close>>

\* ------------------------------------------------------- consumer close()

\* close() while prepare_context() is suspended: GeneratorExit is raised
\* outside the try block of __iter__.
CloseAtPrepare ==
    /\ pc = "prepare_yield"
    /\ closed_at' = pc
    /\ emitted_at_close' = Len(emitted)
    /\ pc' = "finished"
    /\ close_result' = "ok"
    /\ UNCHANGED <<restVars, ctxVars, iterVars, prepared, pipeline_context, shutdown_n,
                   iterable_generator_closed, emitted, pending, raised>>

\* close() at the yield of the start event: GeneratorExit is raised before
\* the try block of the iterator, and reaches the except clause of __iter__.
CloseAtStart ==
    /\ pc = "start_yield"
    /\ closed_at' = pc
    /\ emitted_at_close' = Len(emitted)
    /\ iterator_raised' = "GeneratorExit"
    /\ pending' = "GeneratorExit"
    /\ iterable_generator_closed' = IterableExcept("GeneratorExit")
    /\ pc' = "shutdown"
    /\ close_result' = "closing"
    /\ UNCHANGED <<restVars, ctxVars, prepared, pipeline_context, shutdown_n, emitted, stream,
                   stream_end, event, failed_steps, pipeline_exception_info,
                   pipeline_canceled_info, generator_closed, reloaded_run, persisted_status,
                   run_will_resume, yielded, raised>>

\* close() at the yield of a forwarded event: GeneratorExit is raised inside
\* the try block of the iterator.
CloseAtEvent ==
    /\ pc = "event_yield"
    /\ closed_at' = pc
    /\ emitted_at_close' = Len(emitted)
    /\ Terminate(TRUE, ExceptClause("GeneratorExit"),
                 Reraised("GeneratorExit", raise_on_error))
    /\ UNCHANGED <<restVars, ctxVars, prepared, pipeline_context, shutdown_n, stream, stream_end,
                   failed_steps, raised>>

\* close() at the yield of the terminal event: GeneratorExit is raised in
\* the finally block of the iterator and replaces the exception in flight.
CloseAtTerminal ==
    /\ pc = "terminal_yield"
    /\ closed_at' = pc
    /\ emitted_at_close' = Len(emitted)
    /\ iterator_raised' = "GeneratorExit"
    /\ pending' = "GeneratorExit"
    /\ iterable_generator_closed' = IterableExcept("GeneratorExit")
    /\ pc' = "shutdown"
    /\ close_result' = "closing"
    /\ UNCHANGED <<restVars, ctxVars, prepared, pipeline_context, shutdown_n, emitted, stream,
                   stream_end, event, failed_steps, pipeline_exception_info,
                   pipeline_canceled_info, generator_closed, reloaded_run, persisted_status,
                   run_will_resume, yielded, raised>>

\* close() at the yield of a shutdown event: GeneratorExit is raised in the
\* finally block of __iter__ and leaves it.
CloseAtShutdown ==
    /\ pc = "shutdown_yield"
    /\ closed_at' = pc
    /\ emitted_at_close' = Len(emitted)
    /\ pc' = "finished"
    /\ close_result' = "ok"
    /\ UNCHANGED <<restVars, ctxVars, iterVars, prepared, pipeline_context, shutdown_n,
                   iterable_generator_closed, emitted, pending, raised>>

Next ==
    \/ PrepareEvent
    \/ PrepareDone
    \/ IteratorStart
    \/ IteratorStartResumed
    \/ NextInLoop
    \/ NextAfterTerminal
    \/ ShutdownEvent
    \/ ShutdownDone
    \/ CloseAtPrepare
    \/ CloseAtStart
    \/ CloseAtEvent
    \/ CloseAtTerminal
    \/ CloseAtShutdown

Spec == Init /\ [][Next]_vars

TypeOK ==
    /\ pc \in {"not_started", "prepare_yield", "run_iterator", "start_yield",
               "event_yield", "terminal_yield", "shutdown", "shutdown_yield", "finished"}
    /\ close_result \in {"none", "closing", "ok", "RuntimeError"}
    /\ Len(stream) <= MaxEvents


\* --------------------------------------- execute_run_iterator, execute_run

\* The statuses of a run the api functions tell apart.
RunStatuses == {"NOT_STARTED", "STARTING", "STARTED", "SUCCESS", "FAILURE",
                "CANCELING", "CANCELED"}

\* DagsterRun.is_finished
is_finished(status) == status \in {"SUCCESS", "FAILURE", "CANCELED"}

\* An Optional value: None, or a value.
Absent == <<>>
Some(x) == <<x>>

\* Python truth of an optional collection: neither None nor empty.
Truthy(opt) == opt # Absent /\ opt[1] # {}

SolidSelections == {Absent, Some({}), Some({"s1"})}
AssetSelections == {Absent, Some({"a1"})}

\* The fields of DagsterRun the api functions read.
Runs == [status : RunStatuses,
         pipeline_name : {"job"},
         solids_to_execute : SolidSelections,
         asset_selection : AssetSelections,
         execution_plan_snapshot_id : {None, "snap"},
         run_config : {"rc1", "rc2"},
         mode : {"default"},
         step_keys_to_execute : {Absent, Some({"s1"})}]

\* The fields of IPipeline the api functions read; is_subset says that
\* pipeline.get_definition() is a PipelineSubsetDefinition.
Pipelines == [solids_to_execute : SolidSelections,
              asset_selection : AssetSelections,
              is_subset : BOOLEAN]

\* The fields of ExecutionPlanSnapshot that _get_execution_plan_from_run reads.
Snapshots == [can_reconstruct_plan : BOOLEAN,
              repository_load_data : {"rld"},
              initial_known_state : {"ks"}]

EngineEvent == RunEv("ENGINE_EVENT", "", <<>>)
RunFailureEvent == RunEv("PIPELINE_FAILURE", "", <<>>)

\* No plan has been built.
NoPlan == [built_by |-> None]

\* check.invariant of the resume branch of execute_run_iterator
ResumeInvariantAsStart(status) == status \in {"NOT_STARTED", "STARTING"}

ResumeInvariant(status) == status \in {"STARTED", "STARTING"}

\* check.invariant of execute_run
StartInvariant(status) == status \in {"NOT_STARTED", "STARTING"}

\* The branches of execute_run_iterator before the plan is built: the
\* generator it returns, the error it raises, or "proceed".
ExecuteRunIteratorGuard(status, resume, monitoring) ==
    IF status = "CANCELED" THEN "gen_execute_on_cancel"
    ELSE IF ~resume
      THEN IF status \notin {"NOT_STARTED", "STARTING"}
             THEN IF is_finished(status) THEN "gen_ignore_duplicate_run_worker:finished"
                  ELSE IF monitoring THEN "gen_ignore_duplicate_run_worker:monitoring"
                  ELSE "gen_fail_restarted_run_worker"
             ELSE "proceed"
      ELSE IF ResumeInvariant(status) THEN "proceed" ELSE "CheckError"

\* What each returned generator reports to the instance and yields.
GenEventsAlwaysFailing(gen) == <<EngineEvent, RunFailureEvent>>

GenEvents(gen) ==
    IF gen = "gen_fail_restarted_run_worker" THEN <<EngineEvent, RunFailureEvent>>
    ELSE <<EngineEvent>>

\* The condition under which the plan is rebuilt from the snapshot.
CanRebuildIgnoringAssets(snap, p, run) ==
    /\ snap # Absent
    /\ snap[1].can_reconstruct_plan
    /\ p.solids_to_execute = run.solids_to_execute

CanRebuild(snap, p, run) ==
    /\ snap # Absent
    /\ snap[1].can_reconstruct_plan
    /\ p.solids_to_execute = run.solids_to_execute
    /\ p.asset_selection = run.asset_selection

\* _get_execution_plan_from_run; `stored` is what the instance returns for
\* the run's execution_plan_snapshot_id.
get_execution_plan_from_run(p, run, stored) ==
    LET snap == IF run.execution_plan_snapshot_id # None THEN stored ELSE Absent
    IN IF CanRebuild(snap, p, run)
         THEN [built_by |-> "rebuild_from_snapshot",
               pipeline_name |-> run.pipeline_name,
               snapshot |-> snap[1]]
         ELSE [built_by |-> "create_execution_plan",
               run_config |-> run.run_config,
               mode |-> run.mode,
               step_keys_to_execute |-> run.step_keys_to_execute,
               repository_load_data |->
                   IF snap # Absent THEN snap[1].repository_load_data ELSE None,
               known_state |->
                   IF snap # Absent THEN snap[1].initial_known_state ELSE None]

\* The api function is called with a run, a pipeline and an instance.
EntryInit ==
    /\ CallInit
    /\ IterableInit
    /\ dagster_run \in Runs
    /\ pipeline \in Pipelines
    /\ execution_plan_snapshot \in
         IF dagster_run.execution_plan_snapshot_id = None
           THEN {Absent}
           ELSE {Absent} \cup {Some(s) : s \in Snapshots}
    /\ run_monitoring_enabled \in BOOLEAN
    /\ instance_run_status = dagster_run.status
    /\ instance_events = <<>>
    /\ entry_pc = "call"
    /\ entry_gen = None
    /\ entry_raised = None
    /\ execution_plan = NoPlan
    /\ NoBackfill
    /\ NoDefinitions

iterableVars == <<pc, prepared, pipeline_context, shutdown_n, iterable_generator_closed,
                  emitted, pending, raised, closed_at, emitted_at_close, close_result,
                  iterVars>>

\* execute_run_iterator up to the subset handling: it returns a generator,
\* raises, or goes on.  Nothing is reported before a generator is advanced.
ExecuteRunIteratorCall ==
    /\ entry_pc = "call"
    /\ entry = "execute_run_iterator"
    /\ LET o == ExecuteRunIteratorGuard(dagster_run.status, resume_from_failure,
                                        run_monitoring_enabled)
       IN /\ entry_pc' = IF o = "proceed" THEN "subset"
                         ELSE IF o = "CheckError" THEN "raised" ELSE "generator"
          /\ entry_raised' = IF o = "CheckError" THEN o ELSE None
          /\ entry_gen' = IF o \in {"proceed", "CheckError"} THEN None ELSE o
    /\ UNCHANGED <<defsVars, backfillVars, ctxVars, iterableVars, dagster_run, pipeline, execution_plan_snapshot,
                   run_monitoring_enabled, instance_run_status, instance_events,
                   execution_plan>>

\* execute_run up to the subset handling.
ExecuteRunCall ==
    /\ entry_pc = "call"
    /\ entry = "execute_run"
    /\ IF dagster_run.status = "CANCELED"
         THEN /\ instance_events' = Append(instance_events, EngineEvent)
              /\ entry_raised' = "DagsterInvariantViolationError"
              /\ entry_pc' = "raised"
         ELSE /\ UNCHANGED instance_events
              /\ entry_raised' = IF StartInvariant(dagster_run.status) THEN None
                                 ELSE "CheckError"
              /\ entry_pc' = IF StartInvariant(dagster_run.status) THEN "subset"
                             ELSE "raised"
    /\ UNCHANGED <<defsVars, backfillVars, ctxVars, iterableVars, dagster_run, pipeline, execution_plan_snapshot,
                   run_monitoring_enabled, instance_run_status, entry_gen,
                   execution_plan>>

\* next() on the returned generator: it reports and yields its next event
\* (report_run_failed also marks the run failed), or it is exhausted.
GenNext ==
    /\ entry_pc = "generator"
    /\ LET n == Len(instance_events)
           evs == GenEvents(entry_gen)
       IN IF n < Len(evs)
            THEN /\ instance_events' = Append(instance_events, evs[n + 1])
                 /\ instance_run_status' = IF evs[n + 1] = RunFailureEvent
                                             THEN "FAILURE" ELSE instance_run_status
                 /\ UNCHANGED entry_pc
            ELSE /\ entry_pc' = "done"
                 /\ UNCHANGED <<instance_events, instance_run_status>>
    /\ UNCHANGED <<defsVars, backfillVars, ctxVars, iterableVars, dagster_run, pipeline, execution_plan_snapshot,
                   run_monitoring_enabled, entry_gen, entry_raised, execution_plan>>

\* `if dagster_run.solids_to_execute or dagster_run.asset_selection`: a
\* subset definition must agree with the run; any other pipeline is
\* narrowed by subset_for_execution_from_existing_pipeline, whose result is
\* some pipeline.
SubsetForExecution ==
    /\ entry_pc = "subset"
    /\ IF Truthy(dagster_run.solids_to_execute) \/ Truthy(dagster_run.asset_selection)
         THEN IF pipeline.is_subset
                THEN /\ entry_raised' =
                          IF dagster_run.solids_to_execute = pipeline.solids_to_execute
                            THEN None ELSE "CheckError"
                     /\ entry_pc' = IF entry_raised' = None THEN "plan" ELSE "raised"
                     /\ UNCHANGED pipeline
                ELSE /\ pipeline' \in Pipelines
                     /\ entry_pc' = "plan"
                     /\ UNCHANGED entry_raised
         ELSE /\ entry_pc' = "plan"
              /\ UNCHANGED <<pipeline, entry_raised>>
    /\ UNCHANGED <<defsVars, backfillVars, ctxVars, iterableVars, dagster_run, execution_plan_snapshot,
                   run_monitoring_enabled, instance_run_status, instance_events,
                   entry_gen, execution_plan>>

\* `execution_plan = _get_execution_plan_from_run(...)`; the plan is then
\* handed to ExecuteRunWithPlanIterable.
GetExecutionPlan ==
    /\ entry_pc = "plan"
    /\ execution_plan' = get_execution_plan_from_run(pipeline, dagster_run,
                                                     execution_plan_snapshot)
    /\ entry_pc' = "iterable"
    /\ UNCHANGED <<defsVars, backfillVars, ctxVars, iterableVars, dagster_run, pipeline, execution_plan_snapshot,
                   run_monitoring_enabled, instance_run_status, instance_events,
                   entry_gen, entry_raised>>

EntryNext ==
    \/ ExecuteRunIteratorCall
    \/ ExecuteRunCall
    \/ GenNext
    \/ SubsetForExecution
    \/ GetExecutionPlan

SpecEntry == EntryInit /\ [][EntryNext]_vars


\* ------------------------------------------------------------ asset backfill

\* Bounds
MaxIterations == 3

AssetKeys == {"a", "b", "c"}
PartitionKeys == {"k1", "k2"}

\* AssetKeyPartitionKey
AssetKeyPartitionKey(asset_key, partition_key) ==
    [asset_key |-> asset_key, partition_key |-> partition_key]

\* The asset partitions of the graph, and those a backfill may target.
AssetPartitions ==
    {AssetKeyPartitionKey(k, p) : k \in AssetKeys, p \in PartitionKeys}

TargetablePartitions ==
    AssetPartitions \ {AssetKeyPartitionKey("a", "k2"), AssetKeyPartitionKey("c", "k2")}

\* An asset graph: the parents of each asset, its partitions definition, its
\* repository handle, the groups of assets that can only be materialized
\* together, and the assets whose partition depends on the previous
\* partition of the parent (every other one on the partition of the same key).
Graph(parents, partitions_def, repository_handle, required, lagged) ==
    [parents |-> parents, partitions_def |-> partitions_def,
     repository_handle |-> repository_handle, required |-> required,
     lagged |-> lagged]

FanParents == [k \in AssetKeys |-> IF k = "a" THEN {} ELSE {"a"}]
ChainParents == [k \in AssetKeys |-> IF k = "a" THEN {} ELSE IF k = "b" THEN {"a"} ELSE {"b"}]
OneDef == [k \in AssetKeys |-> "d1"]
OneRepo == [k \in AssetKeys |-> "r1"]

AssetGraphs ==
    { Graph(FanParents, OneDef, OneRepo, {}, {}),
      Graph(FanParents, [OneDef EXCEPT !["c"] = "d2"], [OneRepo EXCEPT !["b"] = "r2"],
            {}, {}),
      Graph(ChainParents, OneDef, OneRepo, {}, {}),
      Graph(FanParents, OneDef, OneRepo, {}, {"b"}),
      Graph(FanParents, OneDef, OneRepo, {{"b", "c"}}, {}) }

get_parents(g, asset_key) == g.parents[asset_key]

\* The partition keys of the parent that a partition of the asset depends on.
UpstreamKeys(g, asset_key, partition_key) ==
    IF asset_key \in g.lagged
      THEN IF partition_key = "k2" THEN {"k1"} ELSE {}
      ELSE {partition_key}

get_parents_partitions(g, ap) ==
    {AssetKeyPartitionKey(k, p) :
        k \in g.parents[ap.asset_key],
        p \in UpstreamKeys(g, ap.asset_key, ap.partition_key)}

get_children_partitions(g, ap) ==
    {child \in AssetPartitions : ap \in get_parents_partitions(g, child)}

have_same_partitioning(g, k1, k2) == g.partitions_def[k1] = g.partitions_def[k2]

get_repository_handle(g, k) == g.repository_handle[k]

\* The asset partitions that must be materialized together with ap.
RequiredUnit(g, ap) ==
    {ap} \cup {AssetKeyPartitionKey(k, ap.partition_key) :
                  k \in UNION {grp \in g.required : ap.asset_key \in grp}}

\* Length of the longest path from a root of the graph to the asset.
RECURSIVE Level(_, _)
Level(g, k) ==
    IF g.parents[k] = {} THEN 0
    ELSE 1 + (CHOOSE n \in 0..Cardinality(AssetKeys) :
                 /\ \E p \in g.parents[k] : Level(g, p) = n
                 /\ \A p \in g.parents[k] : Level(g, p) <= n)

\* AssetGraphSubset.asset_keys
asset_keys(subset) == {ap.asset_key : ap \in subset}

\* AssetGraphSubset.num_partitions_and_non_partitioned_assets
num_partitions_and_non_partitioned_assets(subset) == Cardinality(subset)

\* AssetBackfillData.empty
EmptyBackfillData(target_subset) ==
    [target_subset |-> target_subset,
     requested_runs_for_target_roots |-> FALSE,
     latest_storage_id |-> Absent,
     materialized_subset |-> {},
     requested_subset |-> {},
     failed_and_downstream_subset |-> {}]

\* AssetBackfillData.is_complete
is_complete(data) ==
    num_partitions_and_non_partitioned_assets(
        data.materialized_subset \cup data.failed_and_downstream_subset)
    = num_partitions_and_non_partitioned_assets(data.target_subset)

\* AssetSelection.keys(...).sources(): the keys with no parent among them.
sources(g, keys) == {k \in keys : g.parents[k] \cap keys = {}}

\* AssetBackfillData.get_target_root_asset_partitions
get_target_root_asset_partitions_all(g, data) == data.target_subset

get_target_root_asset_partitions(g, data) ==
    LET root_asset_keys == sources(g, asset_keys(data.target_subset))
    IN {ap \in data.target_subset : ap.asset_key \in root_asset_keys}

\* The partition keys in the order a partitions subset lists them.
PartitionKeyOrder == <<"k1", "k2">>

\* AssetGraphSubset.to_storage_dict: for each asset key of the subset, the
\* list of its partition keys.
to_storage_dict(subset) ==
    [partitions_subsets_by_asset_key |->
        [k \in asset_keys(subset) |->
            SelectSeq(PartitionKeyOrder,
                      LAMBDA pk : AssetKeyPartitionKey(k, pk) \in subset)],
     non_partitioned_asset_keys |-> <<>>]

\* AssetGraphSubset.from_storage_dict: the asset partitions listed, for the
\* asset keys the graph has.
from_storage_dict(storage_dict, g) ==
    LET by_key == storage_dict.partitions_subsets_by_asset_key
    IN UNION { {AssetKeyPartitionKey(k, by_key[k][i]) : i \in DOMAIN by_key[k]} :
               k \in DOMAIN by_key \cap DOMAIN g.parents }

\* json.dumps and json.loads of an optional integer.
json_dumps_optional(x) == IF x = Absent THEN <<"null">> ELSE <<"number", x[1]>>
json_loads_optional(x) == IF x = <<"null">> THEN Absent ELSE Some(x[2])

\* AssetBackfillData.serialize
serialize(data) ==
    [requested_runs_for_target_roots |-> data.requested_runs_for_target_roots,
     serialized_target_subset |-> to_storage_dict(data.target_subset),
     latest_storage_id |-> json_dumps_optional(data.latest_storage_id),
     serialized_requested_subset |-> to_storage_dict(data.requested_subset),
     serialized_materialized_subset |-> to_storage_dict(data.materialized_subset),
     serialized_failed_subset |-> to_storage_dict(data.failed_and_downstream_subset)]

\* AssetBackfillData.from_serialized
from_serialized_failed_as_materialized(serialized, g) ==
    [target_subset |-> from_storage_dict(serialized.serialized_target_subset, g),
     requested_runs_for_target_roots |-> serialized.requested_runs_for_target_roots,
     requested_subset |-> from_storage_dict(serialized.serialized_requested_subset, g),
     materialized_subset |-> from_storage_dict(serialized.serialized_failed_subset, g),
     failed_and_downstream_subset |->
         from_storage_dict(serialized.serialized_materialized_subset, g),
     latest_storage_id |-> json_loads_optional(serialized.latest_storage_id)]

from_serialized(serialized, g) ==
    [target_subset |-> from_storage_dict(serialized.serialized_target_subset, g),
     requested_runs_for_target_roots |-> serialized.requested_runs_for_target_roots,
     requested_subset |-> from_storage_dict(serialized.serialized_requested_subset, g),
     materialized_subset |-> from_storage_dict(serialized.serialized_materialized_subset, g),
     failed_and_downstream_subset |->
         from_storage_dict(serialized.serialized_failed_subset, g),
     latest_storage_id |-> json_loads_optional(serialized.latest_storage_id)]

BACKFILL_ID_TAG == "dagster/backfill"
PARTITION_NAME_TAG == "dagster/partition"

\* backfill.backfill_id
BackfillId == "backfill_1"

\* A tags mapping: tag keys to values.
NoTags == [key \in {} |-> ""]
Tag(key, value) == [k \in {key} |-> value]

\* Python {**d1, **d2}: the keys of both, d2 deciding what both have.
Merge(d1, d2) ==
    [key \in DOMAIN d1 \cup DOMAIN d2 |-> IF key \in DOMAIN d2 THEN d2[key] ELSE d1[key]]

\* The tags a backfill can carry: none, a tag of its own, a backfill-id tag
\* naming another backfill.
RunTags == {NoTags, Tag("team", "data"), Tag(BACKFILL_ID_TAG, "backfill_0")}

\* tags.get(key) == value
HasTag(tags, key, value) == key \in DOMAIN tags /\ tags[key] = value

\* The run instance.create_run stores for a run request: its tags, its
\* partition, the job it runs and the asset selection whose materialization
\* it plans.
Run(tags, partition_key, pipeline_name, asset_selection, status) ==
    [tags |-> tags, partition_key |-> partition_key, pipeline_name |-> pipeline_name,
     asset_selection |-> asset_selection, status |-> status]

\* instance_queryer.get_current_materializations_for_run
get_current_materializations_for_run(log, run_id) ==
    {log[i].asset_key : i \in {j \in DOMAIN log : log[j].run_id = run_id}}

\* _get_failed_asset_partitions
get_failed_asset_partitions_failure_only(runs, log) ==
    UNION { {AssetKeyPartitionKey(k, runs[id].partition_key) :
                k \in runs[id].asset_selection
                      \ get_current_materializations_for_run(log, id)} :
            id \in {r \in DOMAIN runs :
                       /\ HasTag(runs[r].tags, BACKFILL_ID_TAG, BackfillId)
                       /\ runs[r].status = "FAILURE"} }

get_failed_asset_partitions(runs, log) ==
    UNION { {AssetKeyPartitionKey(k, runs[id].partition_key) :
                k \in runs[id].asset_selection
                      \ get_current_materializations_for_run(log, id)} :
            id \in {r \in DOMAIN runs :
                       /\ HasTag(runs[r].tags, BACKFILL_ID_TAG, BackfillId)
                       /\ runs[r].status \in {"CANCELED", "FAILURE"}} }

\* `can_run_with_parent` of should_backfill_atomic_asset_partitions_unit
CanRunWithParentAnyPartitionsDef(g, parent, candidate, asset_partitions_to_request) ==
    /\ parent \in asset_partitions_to_request
    /\ parent.partition_key = candidate.partition_key
    /\ get_repository_handle(g, candidate.asset_key)
         = get_repository_handle(g, parent.asset_key)

CanRunWithParentAnyKeyOrRepo(g, parent, candidate, asset_partitions_to_request) ==
    /\ parent \in asset_partitions_to_request
    /\ have_same_partitioning(g, parent.asset_key, candidate.asset_key)

CanRunWithParent(g, parent, candidate, asset_partitions_to_request) ==
    /\ parent \in asset_partitions_to_request
    /\ have_same_partitioning(g, parent.asset_key, candidate.asset_key)
    /\ parent.partition_key = candidate.partition_key
    /\ get_repository_handle(g, candidate.asset_key)
         = get_repository_handle(g, parent.asset_key)

\* should_backfill_atomic_asset_partitions_unit
should_backfill_ignoring_materialized(g, candidates_unit, asset_partitions_to_request, target_subset, materialized_subset, failed_and_downstream_subset) ==
    \A candidate \in candidates_unit :
       /\ candidate \in target_subset
       /\ candidate \notin failed_and_downstream_subset
       /\ \A parent \in get_parents_partitions(g, candidate) :
             ~ /\ parent \in target_subset
               /\ ~CanRunWithParent(g, parent, candidate, asset_partitions_to_request)
               /\ parent \notin materialized_subset

should_backfill_atomic_asset_partitions_unit(g, candidates_unit, asset_partitions_to_request, target_subset, materialized_subset, failed_and_downstream_subset) ==
    \A candidate \in candidates_unit :
       /\ candidate \in target_subset
       /\ candidate \notin failed_and_downstream_subset
       /\ candidate \notin materialized_subset
       /\ \A parent \in get_parents_partitions(g, candidate) :
             ~ /\ parent \in target_subset
               /\ ~CanRunWithParent(g, parent, candidate, asset_partitions_to_request)
               /\ parent \notin materialized_subset

\* AssetGraph.bfs_filter_asset_partitions: from the initial asset partitions,
\* parents before children, a unit that satisfies condition_fn (given the
\* units accepted so far) is accepted and its children are visited.
RECURSIVE BfsVisit(_, _, _, _, _)
BfsVisit(g, condition_fn, queue, all_nodes, result) ==
    IF queue = {} THEN result
    ELSE LET first == CHOOSE x \in queue :
                         \A y \in queue : Level(g, x.asset_key) <= Level(g, y.asset_key)
             candidates_unit == RequiredUnit(g, first)
             children == UNION {get_children_partitions(g, c) : c \in candidates_unit}
         IN IF condition_fn[candidates_unit, result]
              THEN BfsVisit(g, condition_fn,
                            (queue \ candidates_unit) \cup (children \ all_nodes),
                            all_nodes \cup children,
                            result \cup candidates_unit)
              ELSE BfsVisit(g, condition_fn, queue \ candidates_unit, all_nodes, result)

bfs_filter_asset_partitions(g, condition_fn, initial_asset_partitions) ==
    BfsVisit(g, condition_fn, initial_asset_partitions, initial_asset_partitions, {})

\* instance_queryer.get_latest_storage_id
get_latest_storage_id(log) == IF log = <<>> THEN Absent ELSE Some(Len(log))

\* The storage ids after the cursor.
AfterCursor(log, cursor) ==
    {i \in DOMAIN log : cursor = Absent \/ i > cursor[1]}

\* find_parent_materialized_asset_partitions: the children, among the target
\* assets, of what was materialized after the cursor, and the new cursor.
find_parent_materialized_asset_partitions(g, log, target_asset_keys, target_asset_keys_and_parents, latest_storage_id) ==
    LET new == {i \in AfterCursor(log, latest_storage_id) :
                   log[i].asset_key \in target_asset_keys_and_parents}
        found == UNION { {child \in get_children_partitions(
                                       g, AssetKeyPartitionKey(log[i].asset_key,
                                                               log[i].partition_key)) :
                             child.asset_key \in target_asset_keys} : i \in new }
    IN [asset_partitions |-> found,
        latest_storage_id |-> IF new = {} THEN latest_storage_id
                              ELSE Some(CHOOSE i \in new : \A j \in new : j <= i)]

\* instance_queryer.run_has_tag(run_id, BACKFILL_ID_TAG, backfill_id)
run_has_tag(runs, run_id) ==
    run_id \in DOMAIN runs /\ HasTag(runs[run_id].tags, BACKFILL_ID_TAG, BackfillId)

\* Python `x or y` on an optional storage id.
OrElse(x, y) == IF x = Absent \/ x[1] = 0 THEN y ELSE x

RECURSIVE SetToSeq(_)
SetToSeq(s) ==
    IF s = {} THEN <<>>
    ELSE LET x == CHOOSE y \in s : TRUE IN <<x>> \o SetToSeq(s \ {x})

\* build_run_requests: one run request for the asset partitions of one
\* partitions definition and partition key, with the given tags and the tag
\* of its partition.
build_run_requests(g, asset_partitions, run_tags) ==
    LET groups == {<<g.partitions_def[ap.asset_key], ap.partition_key>> :
                      ap \in asset_partitions}
    IN SetToSeq({ [asset_selection |->
                      {ap.asset_key : ap \in {x \in asset_partitions :
                          /\ g.partitions_def[x.asset_key] = grp[1]
                          /\ x.partition_key = grp[2]}},
                   partition_key |-> grp[2],
                   tags |-> Merge(run_tags, Tag(PARTITION_NAME_TAG, grp[2]))] :
                 grp \in groups })

\* The failed-and-downstream subset of an iteration.
FailedAndDownstream(g, data, runs, log) ==
    bfs_filter_asset_partitions(
        g,
        [asset_partitions \in SUBSET AssetPartitions, visited \in SUBSET AssetPartitions |->
            \E asset_partition \in asset_partitions :
               asset_partition \in data.target_subset],
        get_failed_asset_partitions(runs, log))

\* The materialized subset of an iteration: what the backfill's runs have
\* materialized after the cursor, among the target assets, is added.
UpdatedMaterialized(data, runs, log) ==
    data.materialized_subset \cup
      {AssetKeyPartitionKey(log[i].asset_key, log[i].partition_key) :
          i \in {j \in AfterCursor(log, data.latest_storage_id) :
                    /\ log[j].asset_key \in asset_keys(data.target_subset)
                    /\ run_has_tag(runs, log[j].run_id)}}

\* execute_asset_backfill_iteration_inner: its locals and its result.
\* {**run_tags, BACKFILL_ID_TAG: backfill_id}
backfill_run_tags_kept(run_tags) == Merge(Tag(BACKFILL_ID_TAG, BackfillId), run_tags)

backfill_run_tags(run_tags) == Merge(run_tags, Tag(BACKFILL_ID_TAG, BackfillId))

execute_asset_backfill_iteration_inner(g, data, runs, log, run_tags) ==
    LET request_roots == ~data.requested_runs_for_target_roots
        target_parent_asset_keys ==
            UNION {get_parents(g, k) : k \in asset_keys(data.target_subset)}
        scan == find_parent_materialized_asset_partitions(
                    g, log, asset_keys(data.target_subset),
                    asset_keys(data.target_subset) \cup target_parent_asset_keys,
                    data.latest_storage_id)
        initial_candidates ==
            IF request_roots THEN get_target_root_asset_partitions(g, data)
            ELSE scan.asset_partitions
        next_latest_storage_id ==
            IF request_roots THEN get_latest_storage_id(log) ELSE scan.latest_storage_id
        updated_materialized_subset ==
            IF request_roots THEN {} ELSE UpdatedMaterialized(data, runs, log)
        failed_and_downstream_subset ==
            IF request_roots THEN {} ELSE FailedAndDownstream(g, data, runs, log)
        asset_partitions_to_request ==
            bfs_filter_asset_partitions(
                g,
                [unit \in SUBSET AssetPartitions, visited \in SUBSET AssetPartitions |->
                    should_backfill_atomic_asset_partitions_unit(
                        g, unit, visited, data.target_subset,
                        updated_materialized_subset, failed_and_downstream_subset)],
                initial_candidates)
        run_requests == build_run_requests(g, asset_partitions_to_request,
                                           backfill_run_tags(run_tags))
    IN [request_roots |-> request_roots,
        initial_candidates |-> initial_candidates,
        asset_partitions_to_request |-> asset_partitions_to_request,
        run_requests |-> run_requests,
        raised |-> request_roots /\ Len(run_requests) = 0,
        backfill_data |->
            [target_subset |-> data.target_subset,
             latest_storage_id |-> OrElse(next_latest_storage_id, data.latest_storage_id),
             requested_runs_for_target_roots |->
                 data.requested_runs_for_target_roots \/ request_roots,
             materialized_subset |-> updated_materialized_subset,
             failed_and_downstream_subset |-> failed_and_downstream_subset,
             requested_subset |-> data.requested_subset \cup asset_partitions_to_request]]

\* No iteration has run.
NoInner(data) ==
    [request_roots |-> FALSE, initial_candidates |-> {},
     asset_partitions_to_request |-> {}, run_requests |-> <<>>, raised |-> FALSE,
     backfill_data |-> data]

\* No run is followed through the api functions.
NoRun ==
    /\ entry = None
    /\ raise_on_error = FALSE
    /\ resume_from_failure = FALSE
    /\ IterableInit
    /\ EntryPassed

\* A backfill of a target subset has been stored; no run of it exists.
BackfillInit ==
    /\ NoRun
    /\ NoDefinitions
    /\ asset_graph \in AssetGraphs
    /\ \E target_subset \in SUBSET TargetablePartitions :
         serialized_asset_backfill_data = serialize(EmptyBackfillData(target_subset))
    /\ asset_backfill_data = from_serialized(serialized_asset_backfill_data, asset_graph)
    /\ backfill_status = "REQUESTED"
    /\ instance_runs = <<>>
    /\ event_log = <<>>
    /\ backfill_pc = "idle"
    /\ iterations = 0
    /\ inner = NoInner(asset_backfill_data)
    /\ submitted = 0
    /\ backfill_tags \in RunTags
    /\ pipeline_and_execution_plan_cache = <<>>
    /\ code_location_calls = <<>>

runVars == <<ctxVars, iterableVars, entryVars, defsVars>>

\* execute_asset_backfill_iteration up to the end of the inner generator:
\* the result, or the error of the first iteration that requests nothing.
ExecuteInner ==
    /\ backfill_pc = "idle"
    /\ backfill_status = "REQUESTED"
    /\ iterations < MaxIterations
    /\ iterations' = iterations + 1
    /\ inner' = execute_asset_backfill_iteration_inner(
                    asset_graph,
                    from_serialized(serialized_asset_backfill_data, asset_graph),
                    instance_runs, event_log, backfill_tags)
    /\ backfill_pc' = IF inner'.raised THEN "failed" ELSE "submitting"
    /\ submitted' = 0
    /\ pipeline_and_execution_plan_cache' = <<>>
    /\ code_location_calls' = <<>>
    /\ UNCHANGED <<runVars, asset_graph, asset_backfill_data, backfill_status,
                   instance_runs, event_log, backfill_tags,
                   serialized_asset_backfill_data>>

\* cast(Sequence[AssetKey], run_request.asset_selection)[0]: the first key
\* of the selection, the keys being listed parents first.
FirstKey(g, asset_selection) ==
    CHOOSE k \in asset_selection :
       \A other \in asset_selection : Level(g, k) <= Level(g, other)

\* _get_implicit_job_name_for_assets: the base asset job that materializes
\* all the keys, one per partitions definition.
get_implicit_job_name_for_assets(g, asset_selection) ==
    <<"__ASSET_JOB", g.partitions_def[FirstKey(g, asset_selection)]>>

\* The PipelineSelector submit_run_request builds for a run request.
PipelineSelector(g, run_request) ==
    LET repo_handle == get_repository_handle(g, FirstKey(g, run_request.asset_selection))
    IN [location_name |-> repo_handle,
        repository_name |-> repo_handle,
        pipeline_name |-> get_implicit_job_name_for_assets(g, run_request.asset_selection),
        asset_selection |-> run_request.asset_selection,
        solid_selection |-> None]

\* hash_collection: a number computed from the fields of the selector.
hash_collection(selector) ==
    (IF "a" \in selector.asset_selection THEN 1 ELSE 0)
    + (IF "b" \in selector.asset_selection THEN 2 ELSE 0)
    + (IF "c" \in selector.asset_selection THEN 4 ELSE 0)
    + (IF selector.repository_name = "r1" THEN 0 ELSE 8)
    + (IF selector.pipeline_name[2] = "d1" THEN 0 ELSE 16)

\* A run request is submitted while execute_asset_backfill_iteration_inner
\* is still being consumed.
SubmitRunRequestDuringInner ==
    /\ backfill_pc = "idle"
    /\ backfill_status = "REQUESTED"
    /\ iterations < MaxIterations
    /\ LET result == execute_asset_backfill_iteration_inner(
                         asset_graph, asset_backfill_data, instance_runs, event_log,
                         backfill_tags)
       IN /\ Len(result.run_requests) > 0
          /\ instance_runs' =
                Append(instance_runs,
                       Run(result.run_requests[1].tags, result.run_requests[1].partition_key,
                           get_implicit_job_name_for_assets(
                               asset_graph, result.run_requests[1].asset_selection),
                           result.run_requests[1].asset_selection, "NOT_STARTED"))
    /\ UNCHANGED <<runVars, asset_graph, asset_backfill_data, backfill_status, event_log,
                   backfill_pc, iterations, inner, submitted, backfill_tags,
                   pipeline_and_execution_plan_cache, code_location_calls,
                   serialized_asset_backfill_data>>

\* `selector_id not in pipeline_and_execution_plan_cache`
CacheMissAlways(cache, selector_id) == TRUE

CacheMiss(cache, selector_id) == selector_id \notin DOMAIN cache

\* submit_run_request for the next run request: the external pipeline and
\* plan are fetched unless the cache has them, and the run is created.
SubmitRunRequest ==
    /\ backfill_pc = "submitting"
    /\ submitted < Len(inner.run_requests)
    /\ LET run_request == inner.run_requests[submitted + 1]
           pipeline_selector == PipelineSelector(asset_graph, run_request)
           selector_id == hash_collection(pipeline_selector)
           miss == CacheMiss(pipeline_and_execution_plan_cache, selector_id)
           cache == IF miss
                      THEN [id \in DOMAIN pipeline_and_execution_plan_cache
                                     \cup {selector_id} |->
                               IF id = selector_id THEN pipeline_selector
                               ELSE pipeline_and_execution_plan_cache[id]]
                      ELSE pipeline_and_execution_plan_cache
           external_pipeline == cache[selector_id]
       IN /\ code_location_calls' = IF miss
                                       THEN Append(code_location_calls, pipeline_selector)
                                       ELSE code_location_calls
          /\ pipeline_and_execution_plan_cache' = cache
          /\ instance_runs' = Append(instance_runs,
                                     Run(run_request.tags, run_request.partition_key,
                                         external_pipeline.pipeline_name,
                                         run_request.asset_selection, "NOT_STARTED"))
    /\ submitted' = submitted + 1
    /\ UNCHANGED <<runVars, asset_graph, asset_backfill_data, backfill_status, event_log,
                   backfill_pc, iterations, inner, backfill_tags,
                   serialized_asset_backfill_data>>

\* instance.update_backfill(updated_backfill), after the last submission.
UpdateBackfill ==
    /\ backfill_pc = "submitting"
    /\ submitted = Len(inner.run_requests)
    /\ serialized_asset_backfill_data' = serialize(inner.backfill_data)
    /\ asset_backfill_data' = from_serialized(serialized_asset_backfill_data', asset_graph)
    /\ backfill_status' = IF is_complete(inner.backfill_data) THEN "COMPLETED"
                          ELSE backfill_status
    /\ backfill_pc' = "idle"
    /\ UNCHANGED <<runVars, asset_graph, instance_runs, event_log,
                   iterations, inner, submitted, backfill_tags,
                   pipeline_and_execution_plan_cache, code_location_calls>>

\* The asset keys in the order a run materializes them: parents first.
RECURSIVE InPlanOrder(_, _)
InPlanOrder(g, keys) ==
    IF keys = {} THEN <<>>
    ELSE LET k == CHOOSE x \in keys : \A y \in keys : Level(g, x) <= Level(g, y)
         IN <<k>> \o InPlanOrder(g, keys \ {k})

\* The materialization records a run stores for the asset keys, in order.
Materializations(run_id, partition_key, keys) ==
    [i \in DOMAIN keys |->
        [asset_key |-> keys[i], partition_key |-> partition_key, run_id |-> run_id]]

\* A run of the backfill executes: it materializes planned assets, parents
\* first, and ends with success if it materialized all of them, or else as
\* failed or canceled.
RunFinishes ==
    /\ \E id \in DOMAIN instance_runs, status \in {"SUCCESS", "FAILURE", "CANCELED"} :
         LET run == instance_runs[id]
         IN /\ run.status = "NOT_STARTED"
            /\ \E done \in SUBSET run.asset_selection :
                 /\ \A k \in done :
                       (get_parents(asset_graph, k) \cap run.asset_selection) \subseteq done
                 /\ (status = "SUCCESS") <=> (done = run.asset_selection)
                 /\ event_log' = event_log \o
                       Materializations(id, run.partition_key,
                                        InPlanOrder(asset_graph, done))
            /\ instance_runs' = [instance_runs EXCEPT ![id].status = status]
    /\ UNCHANGED <<runVars, asset_graph, asset_backfill_data, backfill_status, backfill_pc,
                   iterations, inner, submitted, backfill_tags,
                   pipeline_and_execution_plan_cache, code_location_calls,
                   serialized_asset_backfill_data>>

\* A run marked CANCELED whose worker was not interrupted goes on and
\* materializes its next planned asset.
CanceledRunMaterializes ==
    /\ \E id \in DOMAIN instance_runs :
         LET run == instance_runs[id]
             done == get_current_materializations_for_run(event_log, id)
         IN /\ run.status = "CANCELED"
            /\ \E k \in run.asset_selection \ done :
                 /\ (get_parents(asset_graph, k) \cap run.asset_selection) \subseteq done
                 /\ event_log' = Append(event_log,
                                        [asset_key |-> k,
                                         partition_key |-> run.partition_key,
                                         run_id |-> id])
    /\ UNCHANGED <<runVars, asset_graph, asset_backfill_data, backfill_status,
                   instance_runs, backfill_pc, iterations, inner,
                   submitted, backfill_tags, pipeline_and_execution_plan_cache,
                   code_location_calls, serialized_asset_backfill_data>>

\* The run id of a run that is not in the instance's runs of the backfill.
OutsideRunId == 0

\* A run from outside the backfill materializes a partition of an asset that
\* has children, once and between two iterations: its record carries no run
\* of the backfill.
OutsideMaterialization ==
    /\ backfill_pc = "idle"
    /\ \A i \in DOMAIN event_log : event_log[i].run_id # OutsideRunId
    /\ \E ap \in AssetPartitions :
         /\ get_children_partitions(asset_graph, ap) # {}
         /\ event_log' = Append(event_log,
                                [asset_key |-> ap.asset_key,
                                 partition_key |-> ap.partition_key,
                                 run_id |-> OutsideRunId])
    /\ UNCHANGED <<runVars, asset_graph, asset_backfill_data, backfill_status,
                   instance_runs, backfill_pc, iterations, inner,
                   submitted, backfill_tags, pipeline_and_execution_plan_cache,
                   code_location_calls, serialized_asset_backfill_data>>

BackfillNext ==
    \/ ExecuteInner
    \/ SubmitRunRequest
    \/ UpdateBackfill
    \/ RunFinishes
    \/ CanceledRunMaterializes

\* A backfill in the graph where every asset is a child of the first.
FanBackfillInit ==
    /\ BackfillInit
    /\ asset_graph = Graph(FanParents, OneDef, OneRepo, {}, {})
    /\ backfill_tags = NoTags

\* The iteration is abandoned at the yield before a run submission, or the
\* submission fails: the generator is dropped; nothing is stored for it.
AbandonIteration ==
    /\ backfill_pc = "submitting"
    /\ submitted < Len(inner.run_requests)
    /\ backfill_pc' = "idle"
    /\ UNCHANGED <<runVars, asset_graph, asset_backfill_data, backfill_status,
                   instance_runs, event_log, iterations, inner, submitted, backfill_tags,
                   pipeline_and_execution_plan_cache, code_location_calls,
                   serialized_asset_backfill_data>>

AbandonedNext ==
    \/ ExecuteInner
    \/ SubmitRunRequest
    \/ UpdateBackfill
    \/ RunFinishes
    \/ CanceledRunMaterializes
    \/ AbandonIteration

OutsideNext ==
    \/ ExecuteInner
    \/ SubmitRunRequest
    \/ UpdateBackfill
    \/ RunFinishes
    \/ CanceledRunMaterializes
    \/ OutsideMaterialization

SpecBackfill == BackfillInit /\ [][BackfillNext]_vars

SpecBackfillOutside == FanBackfillInit /\ [][OutsideNext]_vars

SpecBackfillAbandoned == FanBackfillInit /\ [][AbandonedNext]_vars

\* The daemon goes on running iterations of a backfill that is not
\* completed; those after the MaxIterations-th are not counted.
ExecuteInnerAgain ==
    /\ backfill_pc = "idle"
    /\ backfill_status = "REQUESTED"
    /\ iterations = MaxIterations
    /\ inner' = execute_asset_backfill_iteration_inner(
                    asset_graph,
                    from_serialized(serialized_asset_backfill_data, asset_graph),
                    instance_runs, event_log, backfill_tags)
    /\ backfill_pc' = IF inner'.raised THEN "failed" ELSE "submitting"
    /\ submitted' = 0
    /\ pipeline_and_execution_plan_cache' = <<>>
    /\ code_location_calls' = <<>>
    /\ UNCHANGED <<runVars, asset_graph, asset_backfill_data, backfill_status,
                   instance_runs, event_log, backfill_tags, iterations,
                   serialized_asset_backfill_data>>

LiveNext ==
    \/ ExecuteInner
    \/ ExecuteInnerAgain
    \/ SubmitRunRequest
    \/ UpdateBackfill
    \/ RunFinishes

\* Iterations keep being executed, each to its end, and every submitted run
\* finishes.
LiveFairness ==
    /\ WF_vars(ExecuteInner)
    /\ WF_vars(ExecuteInnerAgain)
    /\ WF_vars(SubmitRunRequest)
    /\ WF_vars(UpdateBackfill)
    /\ WF_vars(RunFinishes)

SpecBackfillLive == FanBackfillInit /\ [][LiveNext]_vars /\ LiveFairness

\* ----------------------------- build_caching_repository_data_from_list

\* Longest list of definitions given to the builder.
MaxDefinitions == 2

JobKinds == {"job", "graph", "unresolved_asset_job"}
TargeterKinds == {"schedule", "sensor"}
JobNames == {"x", "y"}

\* What a job, graph or unresolved asset job is made of: one of two
\* structures that need no resource, or a structure with a node that requires
\* the resource key "db" while the resource definitions lack it.
Bodies == {"v1", "v2", "needs_db"}

Definition(kind, name, body, target) ==
    [kind |-> kind, name |-> name, body |-> body, target |-> target]

JobKindDefinitions ==
    {d \in [kind : JobKinds, name : JobNames, body : Bodies, target : {Absent}] :
        /\ d.name = "x" => d.body # "needs_db"
        /\ d.name = "y" => d.body # "v2"}

\* What a schedule or sensor targets: nothing, or a job, graph or unresolved
\* asset job.
Targets ==
    {Absent} \cup {Some(d) : d \in {j \in JobKindDefinitions :
                                       j.name = "x" \/ j.body = "needs_db"}}

ScheduleDefinitions ==
    {Definition("schedule", "s", "v1", t) : t \in Targets}
      \cup {Definition("schedule", "x", "v1", Absent)}

SensorDefinitions == {Definition("sensor", "s", "v1", t) : t \in Targets}

RepositoryListDefinitions ==
    JobKindDefinitions \cup ScheduleDefinitions \cup SensorDefinitions

\* Python d[k] = v
Put(d, k, v) == [x \in DOMAIN d \cup {k} |-> IF x = k THEN v ELSE d[x]]

\* A JobDefinition held by the builder: what it was made from, and whether
\* its executor and loggers are its own defaults or those of the repository.
JobEntry(definition) ==
    [kind |-> definition.kind, name |-> definition.name, body |-> definition.body,
     executor_def |-> "default", logger_defs |-> "default"]

\* GraphDefinition.coerce_to_job and UnresolvedAssetJobDefinition.resolve
coerce_to_job(graph) == JobEntry(graph)
resolve(unresolved_job) == JobEntry(unresolved_job)

\* `pipelines_or_jobs[name] != definition` for a job definition
NotEqual(job, definition) ==
    job.kind # definition.kind \/ job.body # definition.body

\* JobDefinition.target_type
target_type(job) == "job"

DagsterInvalidDefinitionError(names) ==
    [type |-> "DagsterInvalidDefinitionError", names |-> names]

\* The duplicate checks of the loop over the list.
DuplicateDefinition(definition, names, pj, uj) ==
    CASE definition.kind = "job" ->
           \/ definition.name \in DOMAIN pj /\ NotEqual(pj[definition.name], definition)
           \/ definition.name \in DOMAIN uj
      [] definition.kind \in TargeterKinds -> definition.name \in names
      [] definition.kind = "graph" -> definition.name \in DOMAIN pj
      [] OTHER -> definition.name \in DOMAIN pj \/ definition.name \in DOMAIN uj

\* _process_and_validate_target: the error, or the three mappings updated.
TargetResult(error, cg, uj, pj) ==
    [error |-> error, coerced_graphs |-> cg, unresolved_jobs |-> uj,
     pipelines_or_jobs |-> pj]

process_and_validate_target(target, cg, uj, pj) ==
    LET name == target.name
        Conflict(kind, dupe_target_type) ==
            TargetResult(Some(DagsterInvalidDefinitionError(<<kind, dupe_target_type>>)),
                         cg, uj, pj)
    IN CASE target.kind = "graph" ->
              IF name \notin DOMAIN cg /\ name \in DOMAIN pj
                THEN Conflict("graph", target_type(pj[name]))
              ELSE IF name \in DOMAIN cg /\ cg[name].body # target.body
                THEN Conflict("graph", "graph")
              ELSE TargetResult(Absent, Put(cg, name, coerce_to_job(target)), uj,
                                Put(pj, name, coerce_to_job(target)))
         [] target.kind = "unresolved_asset_job" ->
              IF name \notin DOMAIN uj /\ name \in DOMAIN pj
                THEN Conflict("unresolved asset job", target_type(pj[name]))
              ELSE IF name \in DOMAIN uj /\ uj[name].body # target.body
                THEN Conflict("unresolved asset job", "unresolved asset job")
              ELSE TargetResult(Absent, cg, Put(uj, name, target), pj)
         [] OTHER ->
              IF name \in DOMAIN pj /\ NotEqual(pj[name], target)
                THEN Conflict(target_type(target),
                              IF name \in DOMAIN cg THEN "graph"
                              ELSE IF name \in DOMAIN uj THEN "unresolved asset job"
                              ELSE target_type(pj[name]))
              ELSE TargetResult(Absent, cg, uj, Put(pj, name, JobEntry(target)))

\* The loops over the sensors and then the schedules that have a target.
RECURSIVE ProcessAndValidateTargets(_, _)
ProcessAndValidateTargets(targeters, result) ==
    IF targeters = <<>> \/ result.error # Absent THEN result
    ELSE LET targeter == Head(targeters)
         IN ProcessAndValidateTargets(
                Tail(targeters),
                IF targeter.target = Absent THEN result
                ELSE process_and_validate_target(
                         targeter.target[1], result.coerced_graphs,
                         result.unresolved_jobs, result.pipelines_or_jobs))

\* The resource keys the job requires and its resource definitions lack.
MissingResourceKeysNone(job) == {}

MissingResourceKeys(job) == IF job.body = "needs_db" THEN {"db"} ELSE {}

\* A list of definitions is given to the builder.
RepositoryInit ==
    /\ NoRun
    /\ NoBackfill
    /\ NoSubset
    /\ NoStorage
    /\ NoSchema
    /\ NoReexecution
    /\ repository_definitions \in
         UNION {[1..n -> RepositoryListDefinitions] : n \in 0..MaxDefinitions}
    /\ default_executor_def \in BOOLEAN
    /\ default_logger_defs \in BOOLEAN
    /\ builder_pc = "definitions"
    /\ next_definition = 1
    /\ schedule_and_sensor_names = {}
    /\ pipelines_or_jobs = <<>>
    /\ coerced_graphs = <<>>
    /\ unresolved_jobs = <<>>
    /\ schedules = <<>>
    /\ sensors = <<>>
    /\ builder_raised = Absent
    /\ repository_data = Absent

builderFrame == <<ctxVars, iterableVars, entryVars, backfillVars, subsetVars, storageVars, schemaVars, reexecutionVars, repository_definitions, default_executor_def,
                  default_logger_defs>>

\* One turn of the loop over repository_definitions.
ProcessDefinition ==
    /\ builder_pc = "definitions"
    /\ next_definition <= Len(repository_definitions)
    /\ LET definition == repository_definitions[next_definition]
           name == definition.name
       IN IF DuplicateDefinition(definition, schedule_and_sensor_names,
                                 pipelines_or_jobs, unresolved_jobs)
            THEN /\ builder_raised' =
                      Some(DagsterInvalidDefinitionError(<<definition.kind, name>>))
                 /\ builder_pc' = "raised"
                 /\ UNCHANGED <<next_definition, schedule_and_sensor_names,
                                pipelines_or_jobs, coerced_graphs, unresolved_jobs,
                                schedules, sensors>>
            ELSE /\ next_definition' = next_definition + 1
                 /\ schedule_and_sensor_names' =
                      IF definition.kind \in TargeterKinds
                        THEN schedule_and_sensor_names \cup {name}
                        ELSE schedule_and_sensor_names
                 /\ pipelines_or_jobs' =
                      IF definition.kind = "job"
                        THEN Put(pipelines_or_jobs, name, JobEntry(definition))
                      ELSE IF definition.kind = "graph"
                        THEN Put(pipelines_or_jobs, name, coerce_to_job(definition))
                      ELSE pipelines_or_jobs
                 /\ coerced_graphs' =
                      IF definition.kind = "graph"
                        THEN Put(coerced_graphs, name, coerce_to_job(definition))
                        ELSE coerced_graphs
                 /\ unresolved_jobs' =
                      IF definition.kind = "unresolved_asset_job"
                        THEN Put(unresolved_jobs, name, definition)
                        ELSE unresolved_jobs
                 /\ schedules' = IF definition.kind = "schedule"
                                   THEN Append(schedules, definition) ELSE schedules
                 /\ sensors' = IF definition.kind = "sensor"
                                 THEN Append(sensors, definition) ELSE sensors
                 /\ UNCHANGED <<builder_pc, builder_raised>>
    /\ UNCHANGED <<builderFrame, repository_data>>

\* The targets of the sensors and of the schedules are processed.
ProcessTargets ==
    /\ builder_pc = "definitions"
    /\ next_definition > Len(repository_definitions)
    /\ LET result == ProcessAndValidateTargets(
                         sensors \o schedules,
                         TargetResult(Absent, coerced_graphs, unresolved_jobs,
                                      pipelines_or_jobs))
       IN /\ builder_raised' = result.error
          /\ builder_pc' = IF result.error = Absent THEN "resolve" ELSE "raised"
          /\ coerced_graphs' = result.coerced_graphs
          /\ unresolved_jobs' = result.unresolved_jobs
          /\ pipelines_or_jobs' = result.pipelines_or_jobs
    /\ UNCHANGED <<builderFrame, next_definition, schedule_and_sensor_names, schedules,
                   sensors, repository_data>>

\* The unresolved asset jobs are resolved and stored under their names.
ResolveUnresolvedJobs ==
    /\ builder_pc = "resolve"
    /\ pipelines_or_jobs' =
         [name \in DOMAIN pipelines_or_jobs \cup DOMAIN unresolved_jobs |->
             IF name \in DOMAIN unresolved_jobs THEN resolve(unresolved_jobs[name])
             ELSE pipelines_or_jobs[name]]
    /\ builder_pc' = "validate"
    /\ UNCHANGED <<builderFrame, next_definition, schedule_and_sensor_names,
                   coerced_graphs, unresolved_jobs, schedules, sensors, builder_raised,
                   repository_data>>

\* validate_resource_requirements_satisfied for every pipeline or job.
ValidateResourceRequirements ==
    /\ builder_pc = "validate"
    /\ LET missing == UNION {MissingResourceKeys(pipelines_or_jobs[name]) :
                                name \in DOMAIN pipelines_or_jobs}
       IN IF missing # {}
            THEN /\ builder_raised' =
                      Some(DagsterInvalidDefinitionError(SetToSeq(missing)))
                 /\ builder_pc' = "raised"
            ELSE /\ builder_pc' = "defaults"
                 /\ UNCHANGED builder_raised
    /\ UNCHANGED <<builderFrame, next_definition, schedule_and_sensor_names,
                   pipelines_or_jobs, coerced_graphs, unresolved_jobs, schedules, sensors,
                   repository_data>>

\* JobDefinition.with_executor_def and with_logger_defs
with_executor_def(job) == [job EXCEPT !.executor_def = "repository"]
with_logger_defs(job) == [job EXCEPT !.logger_defs = "repository"]

\* The defaults are applied to the jobs and the repository data is returned.
ReturnRepositoryData ==
    /\ builder_pc = "defaults"
    /\ LET with_executor == [name \in DOMAIN pipelines_or_jobs |->
                                IF default_executor_def
                                  THEN with_executor_def(pipelines_or_jobs[name])
                                  ELSE pipelines_or_jobs[name]]
           jobs == [name \in DOMAIN with_executor |->
                       IF default_logger_defs THEN with_logger_defs(with_executor[name])
                       ELSE with_executor[name]]
       IN repository_data' = Some([jobs |-> jobs, schedules |-> schedules,
                                   sensors |-> sensors])
    /\ builder_pc' = "returned"
    /\ UNCHANGED <<builderFrame, next_definition, schedule_and_sensor_names,
                   pipelines_or_jobs, coerced_graphs, unresolved_jobs, schedules, sensors,
                   builder_raised>>

RepositoryNext ==
    \/ ProcessDefinition
    \/ ProcessTargets
    \/ ResolveUnresolvedJobs
    \/ ValidateResourceRequirements
    \/ ReturnRepositoryData

SpecRepository == RepositoryInit /\ [][RepositoryNext]_vars

\* ------------------------------------------- subsetting a job or a pipeline

\* Node names of a graph, in topological order; node "c" may be a graph of
\* two nodes itself.
NodeNames == <<"a", "b", "c">>
InnerNodeNames == <<"c1", "c2">>

SeqRange(s) == {s[i] : i \in DOMAIN s}

NoDependencies == [input_name \in {} |-> <<>>]

DependencyDefinition(node) == [type |-> "direct", nodes |-> <<node>>]
DynamicCollectDependencyDefinition(node_name) == [type |-> "dynamic", nodes |-> <<node_name>>]
MultiDependencyDefinition(dependencies) == [type |-> "fan_in", nodes |-> dependencies]

\* The dependencies of a node with one input, "in".
InputDependencies(dependency) ==
    IF dependency = Absent THEN NoDependencies
    ELSE [input_name \in {"in"} |-> dependency[1]]

InputMapping(node_name) == [maps_to |-> [node_name |-> node_name, input_name |-> "in"]]
OutputMapping(node_name) == [maps_from |-> [node_name |-> node_name, output_name |-> "result"]]

\* An op with the inputs named; loadable says that its inputs can be loaded
\* from config when nothing is connected to them.
OpDefinition(input_names, loadable) ==
    [kind |-> "op", input_names |-> input_names, loadable |-> loadable]

GraphNodeDefinition(graph, loadable) ==
    [kind |-> "graph", input_names |-> {"in"}, loadable |-> loadable, graph |-> graph]

GraphDefinition(name, node_names, node_defs, dependencies, input_mappings, output_mappings, parent_graph_def) ==
    [name |-> name, node_names |-> node_names, node_defs |-> node_defs,
     dependencies |-> dependencies, input_mappings |-> input_mappings,
     output_mappings |-> output_mappings, parent_graph_def |-> parent_graph_def]

\* The graph of node "c": c1 -> c2, the input of the graph mapped to c1 and
\* the output of c2 mapped to the output of the graph.
InnerGraph ==
    GraphDefinition("c", InnerNodeNames,
        [n \in SeqRange(InnerNodeNames) |-> OpDefinition({"in"}, TRUE)],
        [n \in SeqRange(InnerNodeNames) |->
            IF n = "c1" THEN NoDependencies
            ELSE InputDependencies(Some(DependencyDefinition("c1")))],
        {InputMapping("c1")}, {OutputMapping("c2")}, Absent)

\* GraphDefinition.get_inputs_must_be_resolved_top_level: an input of a node
\* of the graph that nothing is connected to, that no input of the graph is
\* mapped to and that cannot be loaded from config.
UnresolvedInputs(graph) ==
    {n \in SeqRange(graph.node_names) :
        \E input_name \in graph.node_defs[n].input_names :
           /\ input_name \notin DOMAIN graph.dependencies[n]
           /\ \A m \in graph.input_mappings : m.maps_to.node_name # n
           /\ ~graph.node_defs[n].loadable}

BDependencies ==
    {Absent, Some(DependencyDefinition("a")), Some(DynamicCollectDependencyDefinition("a")),
     Some(MultiDependencyDefinition(<<"a">>))}

CDependencies ==
    {Absent, Some(DependencyDefinition("b")), Some(DynamicCollectDependencyDefinition("b")),
     Some(MultiDependencyDefinition(<<"a", "b">>))}

\* The graphs of the jobs and pipelines that are narrowed: a, b and c with
\* one input each for b and c.
ParentGraphs ==
    {g \in {GraphDefinition("g", NodeNames,
                [n \in SeqRange(NodeNames) |->
                    IF n = "a" THEN OpDefinition({}, TRUE)
                    ELSE IF n = "c" /\ c_is_graph
                         THEN GraphNodeDefinition(InnerGraph, n # not_loadable)
                         ELSE OpDefinition({"in"}, n # not_loadable)],
                [n \in SeqRange(NodeNames) |->
                    IF n = "a" THEN NoDependencies
                    ELSE IF n = "b" THEN InputDependencies(b_dependency)
                    ELSE InputDependencies(c_dependency)],
                input_mappings, output_mappings, Absent) :
            c_is_graph \in BOOLEAN, not_loadable \in {"none", "b", "c"},
            b_dependency \in BDependencies, c_dependency \in CDependencies,
            input_mappings \in {{}, {InputMapping("b")}},
            output_mappings \in {{}, {OutputMapping("b"), OutputMapping("c")}}} :
        /\ UnresolvedInputs(g) = {}
        /\ g.input_mappings # {} => "in" \notin DOMAIN g.dependencies["b"]}

SelectionTreeLeaf == [leaf |-> TRUE]
SelectionTreeBranch(selection) == [leaf |-> FALSE, selection |-> selection]

\* The resolved selections parse_op_selection gives for a graph: every node
\* selected is selected whole, or, for a node that is a graph, by its nodes.
ResolvedOpSelections(graph) ==
    UNION {{[n \in names |-> IF n = "c" THEN c_selection ELSE SelectionTreeLeaf] :
               c_selection \in
                  IF "c" \in names /\ graph.node_defs["c"].kind = "graph"
                  THEN {SelectionTreeLeaf,
                        SelectionTreeBranch([n \in {"c1", "c2"} |-> SelectionTreeLeaf]),
                        SelectionTreeBranch([n \in {"c2"} |-> SelectionTreeLeaf])}
                  ELSE {SelectionTreeLeaf}} :
           names \in SUBSET SeqRange(graph.node_names)}

\* nodes_to_execute: no selection, node names of the graph, or a name that
\* is no node of it.
NodesToExecute(graph) ==
    {Absent} \cup {Some(names) : names \in SUBSET SeqRange(graph.node_names)}
       \cup {Some({"z"}), Some({"a", "z"})}

\* The dependency of an input that the subset keeps: the outputs of nodes
\* that are not selected, and the placeholders of mapped inputs, are left out
\* of a fan-in.
SelectedDependency(dependency, selected) ==
    IF dependency.type = "fan_in"
    THEN LET IsSelected(node) == node \in selected
         IN MultiDependencyDefinition(SelectSeq(dependency.nodes, IsSelected))
    ELSE dependency

\* A direct or dynamic dependency is kept whether its node is selected or not.
SelectedInputsAll(dependencies, selected) == DOMAIN dependencies

\* The inputs of a node that have an entry in the dependencies of the subset.
SelectedInputs(dependencies, selected) ==
    {input_name \in DOMAIN dependencies :
        \/ dependencies[input_name].type = "fan_in"
        \/ dependencies[input_name].nodes[1] \in selected}

\* deps of the subset, for the nodes selected.
SelectedDependencies(graph, selected) ==
    [n \in selected |->
        [input_name \in SelectedInputs(graph.dependencies[n], selected) |->
            SelectedDependency(graph.dependencies[n][input_name], selected)]]

RECURSIVE get_subselected_graph_definition(_, _)
get_subselected_graph_definition(graph, resolved_op_selection_dict) ==
    LET selected == SeqRange(graph.node_names) \cap DOMAIN resolved_op_selection_dict
        IsSelected(node) == node \in selected
        definition(n) ==
            LET selection_node == resolved_op_selection_dict[n]
                node_def == graph.node_defs[n]
            IN IF node_def.kind = "graph" /\ ~selection_node.leaf
               THEN [node_def EXCEPT !.graph =
                        get_subselected_graph_definition(node_def.graph,
                                                         selection_node.selection)]
               ELSE node_def
    IN GraphDefinition(graph.name, SelectSeq(graph.node_names, IsSelected),
           [n \in selected |-> definition(n)],
           SelectedDependencies(graph, selected),
           {m \in graph.input_mappings : m.maps_to.node_name \in selected},
           {m \in graph.output_mappings : m.maps_from.node_name \in selected},
           Some(graph))

JobDefinition(name, graph_def, parent_job_def) ==
    [class |-> "JobDefinition", name |-> name, graph |-> graph_def,
     parent |-> parent_job_def]

PipelineDefinition(name, graph_def) ==
    [class |-> "PipelineDefinition", name |-> name, graph |-> graph_def, parent |-> Absent]

PipelineSubsetDefinition(name, graph_def, parent_pipeline_def) ==
    [class |-> "PipelineSubsetDefinition", name |-> name, graph |-> graph_def,
     parent |-> Some(parent_pipeline_def)]

DagsterInvalidSubsetError(names, cause) ==
    [type |-> "DagsterInvalidSubsetError", names |-> names, cause |-> cause]

DagsterInvariantViolationError ==
    [type |-> "DagsterInvariantViolationError", names |-> {}, cause |-> Absent]

Returned(definition) == [def |-> Some(definition), raised |-> Absent]
Raised(error) == [def |-> Absent, raised |-> Some(error)]

\* The DagsterInvalidDefinitionError leaves the function as it is.
InvalidSubsetUnwrapped(names) == DagsterInvalidDefinitionError(names)

\* except DagsterInvalidDefinitionError as exc: raise DagsterInvalidSubsetError
InvalidSubset(names) ==
    DagsterInvalidSubsetError(names, Some("DagsterInvalidDefinitionError"))

\* JobDefinition._get_job_def_for_op_selection
get_job_def_for_op_selection(self, resolved_op_selection_dict) ==
    IF DOMAIN resolved_op_selection_dict = {} THEN Returned(self)
    ELSE LET graph_def == get_subselected_graph_definition(self.graph,
                                                           resolved_op_selection_dict)
         IN IF UnresolvedInputs(graph_def) # {}
            THEN Raised(InvalidSubset(DOMAIN resolved_op_selection_dict))
            ELSE Returned(JobDefinition(self.name, graph_def, Some(self)))

\* _get_pipeline_subset_def
get_pipeline_subset_def_of(pipeline_def, nodes_to_execute) ==
    LET graph == pipeline_def.graph
        missing == nodes_to_execute \ SeqRange(graph.node_names)
        IsSelected(node) == node \in nodes_to_execute
        graph_def == GraphDefinition(pipeline_def.name,
                        SelectSeq(graph.node_names, IsSelected),
                        [n \in nodes_to_execute |-> graph.node_defs[n]],
                        SelectedDependencies(graph, nodes_to_execute),
                        {}, {}, Absent)
    IN IF missing # {}
       THEN Raised(DagsterInvalidSubsetError({CHOOSE n \in missing : TRUE}, Absent))
       ELSE IF UnresolvedInputs(graph_def) # {}
       THEN Raised(InvalidSubset(nodes_to_execute))
       ELSE Returned(PipelineSubsetDefinition(pipeline_def.name, graph_def, pipeline_def))

\* A pipeline subset is narrowed like a pipeline.
PipelineSubsetDefinition_get_pipeline_subset_def_again(self, nodes_to_execute) ==
    IF nodes_to_execute = Absent THEN Returned(self)
    ELSE get_pipeline_subset_def_of(self, nodes_to_execute[1])

\* PipelineSubsetDefinition.get_pipeline_subset_def
PipelineSubsetDefinition_get_pipeline_subset_def(self, nodes_to_execute) ==
    Raised(DagsterInvariantViolationError)

\* PipelineDefinition.get_pipeline_subset_def, and its override
get_pipeline_subset_def(self, nodes_to_execute) ==
    IF self.class = "PipelineSubsetDefinition"
    THEN PipelineSubsetDefinition_get_pipeline_subset_def(self, nodes_to_execute)
    ELSE IF nodes_to_execute = Absent THEN Returned(self)
    ELSE get_pipeline_subset_def_of(self, nodes_to_execute[1])

\* A job or a pipeline and a selection of its nodes are given.
SubsetInit ==
    /\ NoRun
    /\ NoBackfill
    /\ NoRepository
    /\ NoStorage
    /\ NoSchema
    /\ NoReexecution
    /\ subset_pc = "start"
    /\ \E graph \in ParentGraphs :
          \/ /\ parent_def = JobDefinition("job", graph, Absent)
             /\ op_selection \in ResolvedOpSelections(graph)
          \/ /\ parent_def = PipelineDefinition("pipeline", graph)
             /\ op_selection \in NodesToExecute(graph)
    /\ sub_graph = Absent
    /\ subset_def = Absent
    /\ subset_raised = Absent
    /\ resubset_def = Absent
    /\ resubset_raised = Absent

subsetFrame == <<ctxVars, iterableVars, entryVars, backfillVars, repoVars, storageVars, schemaVars, reexecutionVars, parent_def, op_selection>>

\* job._get_job_def_for_op_selection(op_selection)
GetJobDefForOpSelection ==
    /\ subset_pc = "start"
    /\ parent_def.class = "JobDefinition"
    /\ LET result == get_job_def_for_op_selection(parent_def, op_selection)
       IN /\ sub_graph' = IF DOMAIN op_selection = {} THEN Absent
                          ELSE Some(get_subselected_graph_definition(parent_def.graph,
                                                                     op_selection))
          /\ subset_def' = result.def
          /\ subset_raised' = result.raised
    /\ subset_pc' = "subset"
    /\ UNCHANGED <<subsetFrame, resubset_def, resubset_raised>>

\* pipeline.get_pipeline_subset_def(nodes_to_execute)
GetPipelineSubsetDef ==
    /\ subset_pc = "start"
    /\ parent_def.class = "PipelineDefinition"
    /\ LET result == get_pipeline_subset_def(parent_def, op_selection)
       IN /\ subset_def' = result.def
          /\ subset_raised' = result.raised
    /\ subset_pc' = "subset"
    /\ UNCHANGED <<subsetFrame, sub_graph, resubset_def, resubset_raised>>

\* The job returned is narrowed to the same selection.
JobSubsetAgain ==
    /\ subset_pc = "subset"
    /\ subset_def # Absent
    /\ subset_def[1].class = "JobDefinition"
    /\ LET result == get_job_def_for_op_selection(subset_def[1], op_selection)
       IN /\ resubset_def' = result.def
          /\ resubset_raised' = result.raised
    /\ subset_pc' = "again"
    /\ UNCHANGED <<subsetFrame, sub_graph, subset_def, subset_raised>>

\* The pipeline returned is narrowed to the same selection.
PipelineSubsetAgain ==
    /\ subset_pc = "subset"
    /\ subset_def # Absent
    /\ subset_def[1].class # "JobDefinition"
    /\ LET result == get_pipeline_subset_def(subset_def[1], op_selection)
       IN /\ resubset_def' = result.def
          /\ resubset_raised' = result.raised
    /\ subset_pc' = "again"
    /\ UNCHANGED <<subsetFrame, sub_graph, subset_def, subset_raised>>

SubsetNext ==
    \/ GetJobDefForOpSelection
    \/ GetPipelineSubsetDef
    \/ JobSubsetAgain
    \/ PipelineSubsetAgain

SpecSubset == SubsetInit /\ [][SubsetNext]_vars

\* ------------------------------------- connection of an in-memory storage

\* Threads that call the storage, and the connections it can create.
Threads == {"t1", "t2"}
MaxConnections == 3

\* The connection value a call was given: None, or a connection.
YieldedNone == <<"None">>
YieldedConnection(conn) == <<"conn", conn>>

\* A storage is constructed: self._engine = None, self._conn = None.
ConnectionInit ==
    /\ NoRun
    /\ NoBackfill
    /\ NoRepository
    /\ NoSubset
    /\ NoWatch
    /\ NoSchema
    /\ NoReexecution
    /\ storage_pc = [t \in Threads |-> "idle"]
    /\ storage_conn = Absent
    /\ storage_engine = Absent
    /\ connections = <<>>
    /\ created_since_dispose = 0
    /\ yielded_conn = [t \in Threads |-> Absent]

connFrame == <<ctxVars, iterableVars, entryVars, backfillVars, repoVars, subsetVars, watchVars, schemaVars,
              reexecutionVars>>

\* if not self._conn: of connect of InMemoryRunStorage and of run_connection,
\* index_connection and has_table of InMemoryEventLogStorage
Connect(t) ==
    /\ storage_pc[t] = "idle"
    /\ \A other \in Threads : storage_pc[other] # "dispose"
    /\ storage_pc' = [storage_pc EXCEPT ![t] = IF storage_conn = Absent THEN "create"
                                                ELSE "yield"]
    /\ UNCHANGED <<connFrame, storage_conn, storage_engine, connections,
                   created_since_dispose, yielded_conn>>

\* self._create_connection()
CreateConnection(t) ==
    /\ storage_pc[t] = "create"
    /\ Len(connections) < MaxConnections
    /\ connections' = Append(connections, "open")
    /\ storage_engine' = Some(Len(connections) + 1)
    /\ storage_conn' = Some(Len(connections) + 1)
    /\ created_since_dispose' = created_since_dispose + 1
    /\ storage_pc' = [storage_pc EXCEPT ![t] = "yield"]
    /\ UNCHANGED <<connFrame, yielded_conn>>

\* yield self._conn, or the use of self._conn by has_table
YieldConnection(t) ==
    /\ storage_pc[t] = "yield"
    /\ yielded_conn' = [yielded_conn EXCEPT ![t] =
          Some(IF storage_conn = Absent THEN [conn |-> YieldedNone, live |-> FALSE]
               ELSE [conn |-> YieldedConnection(storage_conn[1]),
                     live |-> connections[storage_conn[1]] = "open"])]
    /\ storage_pc' = [storage_pc EXCEPT ![t] = "in_use"]
    /\ UNCHANGED <<connFrame, storage_conn, storage_engine, connections,
                   created_since_dispose>>

\* The with block of the caller, or has_table, ends.
Release(t) ==
    /\ storage_pc[t] = "in_use"
    /\ yielded_conn' = [yielded_conn EXCEPT ![t] = Absent]
    /\ storage_pc' = [storage_pc EXCEPT ![t] = "idle"]
    /\ UNCHANGED <<connFrame, storage_conn, storage_engine, connections,
                   created_since_dispose>>

\* dispose: if self._conn: self._conn.close(); the storage is disposed of
\* when no call of another thread is under way.
DisposeClose(t) ==
    /\ \A other \in Threads : storage_pc[other] = "idle"
    /\ IF storage_conn = Absent
       THEN UNCHANGED <<storage_pc, connections>>
       ELSE /\ connections' = [connections EXCEPT ![storage_conn[1]] = "closed"]
            /\ storage_pc' = [storage_pc EXCEPT ![t] = "dispose"]
    /\ created_since_dispose' = IF storage_conn = Absent THEN 0 ELSE created_since_dispose
    /\ UNCHANGED <<connFrame, storage_conn, storage_engine, yielded_conn>>

\* dispose: self._conn = None, then self._engine.dispose()
DisposeClear(t) ==
    /\ storage_pc[t] = "dispose"
    /\ storage_conn' = Absent
    /\ created_since_dispose' = 0
    /\ storage_pc' = [storage_pc EXCEPT ![t] = "idle"]
    /\ UNCHANGED <<connFrame, storage_engine, connections, yielded_conn>>

ConnectionNext ==
    \E t \in Threads :
       \/ Connect(t)
       \/ CreateConnection(t)
       \/ YieldConnection(t)
       \/ Release(t)
       \/ DisposeClose(t)
       \/ DisposeClear(t)

SpecConnection == ConnectionInit /\ [][ConnectionNext]_vars

\* --------------------------------------------------- get_run_config_schema

\* The modes of the definition, and how many schemas can be created.
Modes == {"default", "test"}
MaxSchemas == 3

Idle == [at |-> "idle"]

\* self._cached_run_config_schemas = {} at the end of __init__
SchemaInit ==
    /\ NoRun
    /\ NoBackfill
    /\ NoRepository
    /\ NoSubset
    /\ NoStorage
    /\ NoReexecution
    /\ schema_pc = [t \in Threads |-> Idle]
    /\ cached_run_config_schemas = [mode \in {} |-> 0]
    /\ created_schemas = <<>>
    /\ schema_stores = [mode \in Modes |-> 0]
    /\ schema_returns = {}

schemaFrame == <<ctxVars, iterableVars, entryVars, backfillVars, repoVars, subsetVars, storageVars, reexecutionVars>>

\* The schema a call returns is recorded with its mode.
Returns(mode, schema) == schema_returns \cup {[mode |-> mode, schema |-> schema]}

\* if mode_def.name in self._cached_run_config_schemas
Cached(cache, mode) == mode \in DOMAIN cache

\* get_run_config_schema(mode) up to the test of the cache, and its return
\* when the mode is cached.
GetRunConfigSchema(t, mode) ==
    /\ schema_pc[t] = Idle
    /\ IF Cached(cached_run_config_schemas, mode)
       THEN /\ schema_returns' = Returns(mode, cached_run_config_schemas[mode])
            /\ UNCHANGED schema_pc
       ELSE /\ schema_pc' = [schema_pc EXCEPT ![t] = [at |-> "create", mode |-> mode]]
            /\ UNCHANGED schema_returns
    /\ UNCHANGED <<schemaFrame, cached_run_config_schemas, created_schemas, schema_stores>>

\* _create_run_config_schema(self, mode_def, ...) makes a new schema.
CreateRunConfigSchema(t) ==
    /\ schema_pc[t].at = "create"
    /\ Len(created_schemas) < MaxSchemas
    /\ created_schemas' = Append(created_schemas, schema_pc[t].mode)
    /\ schema_pc' = [schema_pc EXCEPT ![t] =
          [at |-> "store", mode |-> schema_pc[t].mode, schema |-> Len(created_schemas) + 1]]
    /\ UNCHANGED <<schemaFrame, cached_run_config_schemas, schema_stores, schema_returns>>

\* self._cached_run_config_schemas[mode_def.name] = the schema created
StoreRunConfigSchema(t) ==
    /\ schema_pc[t].at = "store"
    /\ cached_run_config_schemas' = Put(cached_run_config_schemas, schema_pc[t].mode,
                                        schema_pc[t].schema)
    /\ schema_stores' = [schema_stores EXCEPT ![schema_pc[t].mode] = @ + 1]
    /\ schema_pc' = [schema_pc EXCEPT ![t] = [at |-> "return", mode |-> schema_pc[t].mode]]
    /\ UNCHANGED <<schemaFrame, created_schemas, schema_returns>>

\* return self._cached_run_config_schemas[mode_def.name]
ReturnRunConfigSchema(t) ==
    /\ schema_pc[t].at = "return"
    /\ schema_returns' = Returns(schema_pc[t].mode, cached_run_config_schemas[schema_pc[t].mode])
    /\ schema_pc' = [schema_pc EXCEPT ![t] = Idle]
    /\ UNCHANGED <<schemaFrame, cached_run_config_schemas, created_schemas, schema_stores>>

SchemaNext ==
    \E t \in Threads :
       \/ \E mode \in Modes : GetRunConfigSchema(t, mode)
       \/ CreateRunConfigSchema(t)
       \/ StoreRunConfigSchema(t)
       \/ ReturnRunConfigSchema(t)

SpecSchema == SchemaInit /\ [][SchemaNext]_vars

\* ----------------------------------------- _reexecute_job, ReexecutionOptions

\* How many runs the instance can hold.
MaxRuns == 4

RunIds == 1 .. MaxRuns

\* The statuses a run is left in by execute_run.
FinishedStatuses == {"SUCCESS", "FAILURE", "CANCELED"}

\* A run as the instance stores it.  `reexecutes` is the parent_run_id
\* argument of the _reexecute_job call that created it.
RunRecord(run_id, parent_run_id, root_run_id, status, reexecutes) ==
    [run_id |-> run_id, parent_run_id |-> parent_run_id, root_run_id |-> root_run_id,
     status |-> status, reexecutes |-> reexecutes]

\* instance.get_run_by_id
get_run_by_id(runs, run_id) ==
    IF run_id \in DOMAIN runs THEN Some(runs[run_id]) ELSE Absent

\* The instance holds one or two runs that re-execute nothing.
ReexecutionInit ==
    /\ NoRun
    /\ NoBackfill
    /\ NoRepository
    /\ NoSubset
    /\ NoStorage
    /\ NoSchema
    /\ \E n \in 1 .. 2 : \E st \in [1 .. n -> FinishedStatuses] :
         run_records = [i \in 1 .. n |-> RunRecord(i, Absent, Absent, st[i], Absent)]
    /\ reexecution_options = Absent
    /\ reexecution_raised = Absent

reexecutionFrame == <<ctxVars, iterableVars, entryVars, backfillVars, repoVars, subsetVars, storageVars, schemaVars>>

\* root_run_id=parent_dagster_run.run_id
RootRunIdOfParent(parent_dagster_run) == parent_dagster_run.run_id

\* root_run_id=parent_dagster_run.root_run_id or parent_dagster_run.run_id
RootRunId(parent_dagster_run) ==
    IF parent_dagster_run.root_run_id = Absent
      THEN parent_dagster_run.run_id
      ELSE parent_dagster_run.root_run_id[1]

\* _reexecute_job(job_arg, parent_run_id, ...): the parent is looked up, the
\* new run is created with its root and parent, and execute_run leaves it
\* in some finished status.
ReexecuteJob(parent_run_id) ==
    /\ Len(run_records) < MaxRuns
    /\ LET parent_dagster_run == get_run_by_id(run_records, parent_run_id)
           run_id == Len(run_records) + 1
       IN IF parent_dagster_run = Absent
            THEN /\ reexecution_raised' =
                       Some([call |-> "_reexecute_job", run_id |-> parent_run_id,
                             error |-> "CheckError"])
                 /\ UNCHANGED run_records
            ELSE /\ \E status \in FinishedStatuses :
                      run_records' = Append(run_records,
                          RunRecord(run_id, Some(parent_dagster_run[1].run_id),
                                    Some(RootRunId(parent_dagster_run[1])), status,
                                    Some(parent_run_id)))
                 /\ reexecution_raised' = Absent
    /\ UNCHANGED <<reexecutionFrame, reexecution_options>>

\* ReexecutionOptions.from_failure(run_id, instance)
FromFailure(run_id) ==
    /\ LET parent_run == get_run_by_id(run_records, run_id)
       IN IF parent_run = Absent \/ parent_run[1].status # "FAILURE"
            THEN /\ reexecution_raised' =
                       Some([call |-> "from_failure", run_id |-> run_id,
                             error |-> "CheckError"])
                 /\ reexecution_options' = Absent
            ELSE /\ reexecution_options' = Some([parent_run_id |-> run_id])
                 /\ reexecution_raised' = Absent
    /\ UNCHANGED <<reexecutionFrame, run_records>>

ReexecutionNext ==
    \/ \E parent_run_id \in RunIds : ReexecuteJob(parent_run_id)
    \/ \E run_id \in RunIds : FromFailure(run_id)

SpecReexecution == ReexecutionInit /\ [][ReexecutionNext]_vars

\* ------------------------------------ watches of InMemoryEventLogStorage

\* How many events are stored.
MaxStored == 2

WatchedRunIds == {"r1", "r2"}

\* The callbacks, named by what they do when called: one returns, one
\* raises an Exception, one calls end_watch for itself and for the first.
Callbacks == {"returns", "raises", "ends_watch"}

CallbackOutcome(callback) == IF callback = "raises" THEN "Exception" ELSE "returns"

CallbackEnds(callback) ==
    IF callback = "ends_watch" THEN <<"ends_watch", "returns">> ELSE <<>>

\* EventLogCursor.from_storage_id
Cursor(id) == [kind |-> "STORAGE_ID", value |-> id]

\* A watch: a callback registered for a run id.
WatchOf(run_id, callback) == [run_id |-> run_id, callback |-> callback]

\* self._handlers = defaultdict(set); self._storage_id = 0
WatchInit ==
    /\ NoRun
    /\ NoBackfill
    /\ NoRepository
    /\ NoSubset
    /\ NoConnection
    /\ NoSchema
    /\ NoReexecution
    /\ handlers = [run_id \in WatchedRunIds |-> {}]
    /\ unwatched = {WatchOf(run_id, callback) : run_id \in WatchedRunIds, callback \in Callbacks}
    /\ storage_id = 0
    /\ stored_events = <<>>
    /\ deliveries = Absent
    /\ store_event_raised = FALSE

watchFrame == <<ctxVars, iterableVars, entryVars, backfillVars, repoVars, subsetVars, connVars, schemaVars, reexecutionVars>>

\* self._handlers[run_id].add(callback)
watch(hs, run_id, callback) == [hs EXCEPT ![run_id] = @ \cup {callback}]

\* if handler in self._handlers[run_id]: self._handlers[run_id].remove(handler)
end_watch(hs, run_id, handler) ==
    IF handler \in hs[run_id] THEN [hs EXCEPT ![run_id] = @ \ {handler}] ELSE hs

\* The callbacks of every run id.
HandlersOfAnyRun(hs, run_id) == UNION {hs[r] : r \in DOMAIN hs}

\* self._handlers[event.run_id]
HandlersOf(hs, run_id) == hs[run_id]

\* list(s): the members of a set in some order.
Lists(s) == {l \in [1 .. Cardinality(s) -> s] : \A i, j \in DOMAIN l : l[i] = l[j] => i = j}

\* except Exception: logging.exception(...)
Caught(outcome) == outcome = "Exception"

RECURSIVE EndAll(_, _, _, _)
\* The end_watch calls a callback makes, one after the other.
EndAll(w, run_id, ended, i) ==
    IF i > Len(ended) THEN w
    ELSE EndAll([handlers |-> end_watch(w.handlers, run_id, ended[i]),
                 unwatched |-> w.unwatched \cup {WatchOf(run_id, ended[i])}],
                run_id, ended, i + 1)

RECURSIVE CallHandlers(_, _, _, _, _, _)
\* The loop of store_event over the listed handlers, from the i-th on: each
\* is called with the event and the cursor of the current storage id.
CallHandlers(listed, i, w, calls, run_id, id) ==
    IF i > Len(listed) THEN [handlers |-> w.handlers, unwatched |-> w.unwatched,
                             calls |-> calls, raised |-> FALSE]
    ELSE LET handler == listed[i]
             called == [calls EXCEPT ![handler] = Append(@, Cursor(id))]
             after == EndAll(w, run_id, CallbackEnds(handler), 1)
             outcome == CallbackOutcome(handler)
         IN IF outcome = "returns" \/ Caught(outcome)
              THEN CallHandlers(listed, i + 1, after, called, run_id, id)
              ELSE [handlers |-> after.handlers, unwatched |-> after.unwatched,
                    calls |-> called, raised |-> TRUE]

\* watch(run_id, cursor, callback)
Watch(run_id, callback) ==
    /\ handlers' = watch(handlers, run_id, callback)
    /\ unwatched' = unwatched \ {WatchOf(run_id, callback)}
    /\ UNCHANGED <<watchFrame, storage_id, stored_events, deliveries, store_event_raised>>

\* end_watch(run_id, handler), called from outside a callback
EndWatch(run_id, handler) ==
    /\ handlers' = end_watch(handlers, run_id, handler)
    /\ unwatched' = unwatched \cup {WatchOf(run_id, handler)}
    /\ UNCHANGED <<watchFrame, storage_id, stored_events, deliveries, store_event_raised>>

\* store_event(event) for an event of a run id: the event is stored, the
\* storage id is advanced, and the handlers listed for the run id are called.
\* What was watching and which watches were not in force when the call began
\* is kept with the calls.
StoreEvent(run_id) ==
    /\ Len(stored_events) < MaxStored
    /\ stored_events' = Append(stored_events, run_id)
    /\ storage_id' = storage_id + 1
    /\ \E listed \in Lists(HandlersOf(handlers, run_id)) :
         LET out == CallHandlers(listed, 1,
                                 [handlers |-> handlers, unwatched |-> unwatched],
                                 [c \in Callbacks |-> <<>>], run_id, storage_id')
         IN /\ handlers' = out.handlers
            /\ unwatched' = out.unwatched
            /\ store_event_raised' = out.raised
            /\ deliveries' = Some([run_id |-> run_id, storage_id |-> storage_id',
                                   watching |-> handlers[run_id],
                                   unwatched |-> {c \in Callbacks : WatchOf(run_id, c) \in unwatched},
                                   calls |-> out.calls])
    /\ UNCHANGED watchFrame

WatchNext ==
    \/ \E run_id \in WatchedRunIds, callback \in Callbacks : Watch(run_id, callback)
    \/ \E run_id \in WatchedRunIds, handler \in Callbacks : EndWatch(run_id, handler)
    \/ \E run_id \in WatchedRunIds : StoreEvent(run_id)

SpecWatch == WatchInit /\ [][WatchNext]_vars

\* ----------------------------------------------------- claims, run iterator

Last(q) == q[Len(q)]

StartEvent == RunEv("PIPELINE_START", "", <<>>)

\* The events of `yielded` that were forwarded from the executor.
IsForwarded(e) == e \in ExecutorEvents

\* The try block of the iterator was left by the end of the stream or by an
\* exception out of it (not by a close).
StreamEnded == stream_end # "open"

\* How many events the iterator yields around the stream when it runs to
\* its end: the start event, if any, and the closing event.
StartCount == IF resume_from_failure THEN 0 ELSE 1

\* C1: whatever happens (step events, failures, exceptions, interruptions,
\* early close), the iterator yields at most one terminal run event (run
\* success, run failure, run canceled) and nothing after it.
C1_AtMostOneTerminalAndLast ==
    /\ Cardinality({i \in DOMAIN yielded : IsTerminal(yielded[i])}) <= 1
    /\ \A i \in DOMAIN yielded : IsTerminal(yielded[i]) => i = Len(yielded)

C1_Witness ==
    /\ pc = "finished"
    /\ stream_end = "KeyboardInterrupt"
    /\ \E i \in DOMAIN stream : is_step_failure(stream[i])
    /\ Len(yielded) >= 3
    /\ IsTerminal(Last(yielded))
    /\ shutdown_n > 0

\* C2: in the yielded sequence the run start event precedes every event
\* forwarded from the executor, every forwarded event precedes the terminal
\* run event, and the forwarded events are the executor's, in its order.
C2_StartStepsTerminalOrder ==
    /\ \A i, j \in DOMAIN yielded :
         (yielded[i] = StartEvent /\ IsForwarded(yielded[j])) => i < j
    /\ \A i, j \in DOMAIN yielded :
         (IsForwarded(yielded[i]) /\ IsTerminal(yielded[j])) => i < j
    /\ \A i, j \in DOMAIN yielded :
         (yielded[i] = StartEvent /\ IsTerminal(yielded[j])) => i < j
    /\ SelectSeq(yielded, IsForwarded) = stream

C2_Witness ==
    /\ pc = "terminal_yield"
    /\ yielded[1] = StartEvent
    /\ Len(stream) = 2
    /\ Len(yielded) = 4
    /\ IsTerminal(yielded[4])


\* The event that closes the yielded sequence once the stream has ended.
TerminalCount == Cardinality({i \in DOMAIN yielded : IsTerminal(yielded[i])})

Interrupted == stream_end \in Interruptions

\* C3 as stated: after an interruption, whatever the status of the reloaded
\* run, exactly one terminal run event has been yielded.
C3_Original_OneTerminalRunEvent ==
    Interrupted => TerminalCount = 1

\* C3, amended: after an interruption the iterator yields exactly one
\* closing event, chosen by the status of the reloaded run: run canceled for
\* CANCELING; for a force-CANCELED run, a run that will resume and a run
\* already in FAILURE an engine event and no terminal run event; run failure
\* in every other case.
C3_OneClosingEventByStatus ==
    Interrupted =>
      /\ Len(yielded) = StartCount + Len(stream) + 1
      /\ Last(yielded) = event
      /\ pipeline_canceled_info = stream_end
      /\ LET t == Last(yielded).event_type
             m == Last(yielded).message
         IN /\ reloaded_run = "CANCELING" => t = "PIPELINE_CANCELED"
            /\ reloaded_run = "CANCELED" =>
                 t = "ENGINE_EVENT" /\ m = "cleaned up after forced cancel"
            /\ (reloaded_run \notin {"CANCELING", "CANCELED"} /\ run_will_resume) =>
                 t = "ENGINE_EVENT" /\ m = "interrupted, run will be resumed"
            /\ (reloaded_run = "FAILURE" /\ ~run_will_resume) =>
                 t = "ENGINE_EVENT" /\ m = "interrupted, run already in failure"
            /\ (reloaded_run \in {None, "STARTED"} /\ ~run_will_resume) =>
                 t = "PIPELINE_FAILURE" /\ m = "interrupted, treating as failure"
            /\ TerminalCount = (IF t = "ENGINE_EVENT" THEN 0 ELSE 1)

C3_Witness ==
    /\ stream_end = "DagsterExecutionInterruptedError"
    /\ reloaded_run = "CANCELED"
    /\ stream # <<>>
    /\ Last(yielded).event_type = "ENGINE_EVENT"
    /\ TerminalCount = 0
    /\ pc = "finished"

\* C4: when the executor stream is exhausted with no exception and no
\* interruption, the terminal event is run success if and only if
\* failed_steps is empty; a step that produced a failure event makes the run
\* fail also when a later event reports it as succeeded.
C4_SuccessIffNoFailedSteps ==
    stream_end = "exhausted" =>
      /\ IsTerminal(Last(yielded))
      /\ Last(yielded).event_type = "PIPELINE_SUCCESS" <=> failed_steps = <<>>
      /\ Last(yielded).event_type = "PIPELINE_FAILURE" <=> failed_steps # <<>>
      /\ (\E i \in DOMAIN stream : is_step_failure(stream[i])) =>
           Last(yielded).event_type = "PIPELINE_FAILURE"

C4_Witness ==
    /\ stream = <<Ev("STEP_FAILURE", "s1"), Ev("STEP_SUCCESS", "s1")>>
    /\ stream_end = "exhausted"
    /\ Last(yielded).event_type = "PIPELINE_FAILURE"

\* The run failed: a step failed, or an exception came out of the stream.
RunFailed ==
    /\ stream_end \in {"exhausted", "Exception"}
    /\ failed_steps # <<>> \/ stream_end = "Exception"

Names(e, fs) == \A i \in DOMAIN fs : \E j \in DOMAIN e.steps : e.steps[j] = fs[i]

\* C5 as stated: on any failure (step failures, an exception out of the
\* stream, or both) the terminal run failure event names every step key of
\* failed_steps.
C5_Original_FailureNamesFailedSteps ==
    RunFailed =>
      /\ Last(yielded).event_type = "PIPELINE_FAILURE"
      /\ Names(Last(yielded), failed_steps)

\* C5, amended: on any failure the iterator yields a terminal run failure
\* event; it names every step key of failed_steps when the stream ended
\* without an exception, and when an exception came out of the stream it
\* carries the fixed message about the exception and names no step key.
C5_FailureEventMessage ==
    RunFailed =>
      /\ Last(yielded).event_type = "PIPELINE_FAILURE"
      /\ stream_end = "exhausted" =>
           /\ Last(yielded).message = "Steps failed"
           /\ Last(yielded).steps = failed_steps
      /\ stream_end = "Exception" =>
           /\ Last(yielded).message = "An exception was thrown during execution."
           /\ Last(yielded).steps = <<>>

C5_Witness ==
    /\ stream_end = "Exception"
    /\ Len(failed_steps) = 2
    /\ Last(yielded).event_type = "PIPELINE_FAILURE"
    /\ Last(yielded).steps = <<>>

KeysOf(q) == [i \in DOMAIN q |-> q[i].step_key]

Flagged(e) == is_step_failure(e) \/ is_resource_init_failure(e)

\* C6 as stated: every event of the stream flagged as a step failure or as
\* a resource-initialization failure has its step key appended to
\* failed_steps.
C6_Original_EveryFlaggedEventAppends ==
    failed_steps = KeysOf(SelectSeq(stream, Flagged))

\* C6, amended: failed_steps holds, in stream order, the step key of every
\* event flagged as a step failure and of every event flagged as a
\* resource-initialization failure that carries a step key; a
\* resource-initialization failure without a step key leaves it unchanged.
C6_FlaggedEventsWithKeyAppend ==
    failed_steps =
      KeysOf(SelectSeq(stream,
                       LAMBDA e : is_step_failure(e)
                                    \/ (is_resource_init_failure(e) /\ e.step_key # None)))

C6_Witness ==
    /\ stream = <<Ev("RESOURCE_INIT_FAILURE", None), Ev("RESOURCE_INIT_FAILURE", "s3")>>
    /\ failed_steps = <<"s3">>


\* C7: three linearly dependent steps, the second raises (not resuming,
\* raise_on_error false): the executor reports step 1 succeeded and step 2
\* failed and ends; the yielded sequence is run start, step-1 success,
\* step-2 failure, run failure naming step 2.  In every run, no run success
\* event is yielded after a step-failure event.
C7_SecondStepFails ==
    /\ ( /\ stream = <<Ev("STEP_SUCCESS", "s1"), Ev("STEP_FAILURE", "s2")>>
         /\ stream_end = "exhausted"
         /\ ~resume_from_failure
         /\ ~raise_on_error )
       => yielded = <<StartEvent, Ev("STEP_SUCCESS", "s1"), Ev("STEP_FAILURE", "s2"),
                      RunEv("PIPELINE_FAILURE", "Steps failed", <<"s2">>)>>
    /\ \A i, j \in DOMAIN yielded :
         (i < j /\ is_step_failure(yielded[i])) =>
           yielded[j].event_type # "PIPELINE_SUCCESS"

C7_Witness ==
    /\ stream = <<Ev("STEP_SUCCESS", "s1"), Ev("STEP_FAILURE", "s2")>>
    /\ stream_end = "exhausted"
    /\ entry = "execute_run_iterator"
    /\ ~resume_from_failure
    /\ Len(yielded) = 4
    /\ pc = "finished"
    /\ raised = None

\* The iterator has been started (its first next() has run).
IteratorBegan == pc \in {"start_yield", "event_yield", "terminal_yield"} \/ yielded # <<>>
    \/ stream_end # "open"

\* C8: the iterator yields a run start event, as its very first event, if
\* and only if resume_from_failure is false; when resuming, no run start
\* event is yielded at any point.
C8_StartIffNotResuming ==
    /\ IteratorBegan =>
         ((yielded # <<>> /\ yielded[1] = StartEvent) <=> ~resume_from_failure)
    /\ \A i \in DOMAIN yielded :
         yielded[i].event_type = "PIPELINE_START" => (i = 1 /\ ~resume_from_failure)

C8_Witness ==
    /\ resume_from_failure
    /\ entry = "execute_run_iterator"
    /\ pc = "finished"
    /\ Len(stream) = 2
    /\ Len(yielded) = 3
    /\ \A i \in DOMAIN yielded : yielded[i] # StartEvent

\* The consumer took every event up to the end (it never closed).
RanToEnd == pc = "finished" /\ closed_at = None

C10_Original_CloseAtAnyYield ==
    closed_at \in {"start_yield", "event_yield", "terminal_yield"} =>
      /\ Len(emitted) = emitted_at_close
      /\ pipeline_exception_info = "GeneratorExit"
      /\ close_result \in {"closing", "ok"}
      /\ raised = None

\* C10, amended: after a close at any yield point neither generator yields
\* another event (no terminal event, no shutdown-context event) and the
\* close ends without an error; the interruption is recorded as the run's
\* exception info when the close came at the yield of a forwarded executor
\* event (inside the try block), and is not recorded when it came at the
\* yield of the start event, of the terminal event or of a context event.
C10_CloseYieldsNothing ==
    closed_at # None =>
      /\ Len(emitted) = emitted_at_close
      /\ Len(yielded) <= emitted_at_close
      /\ close_result \in {"closing", "ok"}
      /\ pc = "finished" => close_result = "ok"
      /\ raised = None
      /\ closed_at = "event_yield" =>
           /\ pipeline_exception_info = "GeneratorExit"
           /\ generator_closed
           /\ ~IsTerminal(Last(yielded))
      /\ closed_at # "event_yield" =>
           /\ pipeline_exception_info # "GeneratorExit"
           /\ ~generator_closed
      /\ closed_at \in {"start_yield", "event_yield", "terminal_yield"} =>
           iterable_generator_closed

C10_Witness ==
    /\ closed_at = "event_yield"
    /\ pc = "finished"
    /\ close_result = "ok"
    /\ shutdown_n > 0
    /\ Len(emitted) = emitted_at_close
    /\ pipeline_exception_info = "GeneratorExit"
    /\ event.event_type = "PIPELINE_FAILURE"

\* C12: terminal run states are immutable.  For a run whose persisted status
\* is already SUCCESS, FAILURE or CANCELED when the iterator closes the run,
\* the iterator yields no run success, run failure or run canceled event
\* that stands for a different status.
C12_TerminalStatusNeverLeft ==
    \A i \in DOMAIN yielded :
       LET t == yielded[i].event_type
       IN /\ persisted_status = "CANCELED" =>
               t \notin {"PIPELINE_SUCCESS", "PIPELINE_FAILURE"}
          /\ persisted_status = "FAILURE" =>
               t \notin {"PIPELINE_SUCCESS", "PIPELINE_CANCELED"}
          /\ persisted_status = "SUCCESS" =>
               t \notin {"PIPELINE_FAILURE", "PIPELINE_CANCELED"}

\* ------------------------------------------------------ claims, api entry

\* The call is execute_run_iterator(..., resume_from_failure=True) and has
\* passed its status checks one way or the other.
ResumeCallDecided ==
    /\ entry = "execute_run_iterator"
    /\ resume_from_failure
    /\ entry_pc # "call"

\* C11: execute_run_iterator called with resume_from_failure=True goes on to
\* plan building and execution only when the run is STARTED or STARTING; for
\* every other status except CANCELED it fails its invariant check, with no
\* event reported or yielded, no generator returned, no plan built and the
\* run's status untouched.
C11_ResumeOnlyFromStarted ==
    ResumeCallDecided =>
      /\ entry_pc \in {"subset", "plan", "iterable"} =>
           dagster_run.status \in {"STARTED", "STARTING"}
      /\ dagster_run.status \notin {"STARTED", "STARTING", "CANCELED"} =>
           /\ entry_pc = "raised"
           /\ entry_raised = "CheckError"
           /\ entry_gen = None
           /\ instance_events = <<>>
           /\ instance_run_status = dagster_run.status
           /\ execution_plan = NoPlan

C11_Witness ==
    /\ ResumeCallDecided
    /\ dagster_run.status = "NOT_STARTED"
    /\ entry_raised = "CheckError"

\* _get_execution_plan_from_run has returned.
PlanBuilt == entry_pc = "iterable"

\* The snapshot stored for the run, if the run names one.
SnapshotOfRun ==
    IF dagster_run.execution_plan_snapshot_id # None
      THEN execution_plan_snapshot ELSE Absent

\* C13: the plan is rebuilt from the stored snapshot if and only if a
\* snapshot exists, it can reconstruct a plan, and the pipeline's
\* solids_to_execute and asset_selection both equal the run's; in every
\* other case the plan comes from create_execution_plan with the run's
\* run_config, mode and step_keys_to_execute.
C13_RebuildIffSnapshotMatches ==
    PlanBuilt =>
      /\ execution_plan.built_by = "rebuild_from_snapshot" <=>
           /\ SnapshotOfRun # Absent
           /\ SnapshotOfRun[1].can_reconstruct_plan
           /\ pipeline.solids_to_execute = dagster_run.solids_to_execute
           /\ pipeline.asset_selection = dagster_run.asset_selection
      /\ execution_plan.built_by # "rebuild_from_snapshot" =>
           /\ execution_plan.built_by = "create_execution_plan"
           /\ execution_plan.run_config = dagster_run.run_config
           /\ execution_plan.mode = dagster_run.mode
           /\ execution_plan.step_keys_to_execute = dagster_run.step_keys_to_execute

C13_Witness ==
    /\ PlanBuilt
    /\ SnapshotOfRun # Absent
    /\ SnapshotOfRun[1].can_reconstruct_plan
    /\ pipeline.solids_to_execute = dagster_run.solids_to_execute
    /\ pipeline.asset_selection # dagster_run.asset_selection
    /\ execution_plan.built_by = "create_execution_plan"

\* --------------------------------------------------- claims, asset backfill

\* An iteration has run; `inner` holds its locals and its result.
IterationRan == iterations > 0

\* C14: every asset partition an iteration puts in asset_partitions_to_request
\* is in the target subset, not in that iteration's failed-and-downstream
\* subset and not in that iteration's updated materialized subset; so the
\* requested subset, computed or stored, stays inside the target subset.
C14_RequestedInsideTarget ==
    /\ inner.asset_partitions_to_request \subseteq inner.backfill_data.target_subset
    /\ inner.asset_partitions_to_request
         \cap inner.backfill_data.failed_and_downstream_subset = {}
    /\ inner.asset_partitions_to_request
         \cap inner.backfill_data.materialized_subset = {}
    /\ inner.backfill_data.requested_subset \subseteq inner.backfill_data.target_subset
    /\ asset_backfill_data.requested_subset \subseteq asset_backfill_data.target_subset

C14_Witness ==
    /\ iterations >= 2
    /\ inner.asset_partitions_to_request # {}
    /\ inner.backfill_data.failed_and_downstream_subset # {}
    /\ inner.backfill_data.materialized_subset # {}

\* C15: an asset partition is requested in an iteration only if every parent
\* partition inside the target subset is in the materialized subset or is
\* requested in the same iteration with the same partitioning, the same
\* partition key and the same repository handle; and a unit of asset
\* partitions that must be materialized together is requested as a whole or
\* not at all.
C15_TargetedParentsReady ==
    \A ap \in inner.asset_partitions_to_request :
       /\ RequiredUnit(asset_graph, ap) \subseteq inner.asset_partitions_to_request
       /\ \A parent \in get_parents_partitions(asset_graph, ap) :
             parent \in inner.backfill_data.target_subset =>
               \/ parent \in inner.backfill_data.materialized_subset
               \/ /\ parent \in inner.asset_partitions_to_request
                  /\ asset_graph.partitions_def[parent.asset_key]
                       = asset_graph.partitions_def[ap.asset_key]
                  /\ parent.partition_key = ap.partition_key
                  /\ asset_graph.repository_handle[parent.asset_key]
                       = asset_graph.repository_handle[ap.asset_key]

C15_Witness ==
    \E ap \in inner.asset_partitions_to_request :
       /\ \E parent \in get_parents_partitions(asset_graph, ap) :
             parent \in inner.asset_partitions_to_request
       /\ \E sibling \in inner.backfill_data.target_subset
                            \ inner.asset_partitions_to_request :
             /\ get_parents_partitions(asset_graph, sibling)
                  \cap inner.asset_partitions_to_request # {}
             /\ get_parents_partitions(asset_graph, sibling)
                  \cap inner.backfill_data.materialized_subset = {}

\* The last iteration was the first of the backfill.
FirstIterationRan == IterationRan /\ inner.request_roots

\* The first iteration requested nothing and failed: no result, nothing
\* stored, no run created.
FailedLoudly ==
    /\ inner.raised
    /\ backfill_pc = "failed"
    /\ asset_backfill_data = EmptyBackfillData(asset_backfill_data.target_subset)
    /\ instance_runs = <<>>

C17_CompleteIffTargetCovered ==
    backfill_pc # "none" =>
      (is_complete(asset_backfill_data)
         <=> asset_backfill_data.target_subset \subseteq
               (asset_backfill_data.materialized_subset
                  \cup asset_backfill_data.failed_and_downstream_subset))

\* The asset partitions run `id` planned and has not materialized.
PlannedNotCompleted(id) ==
    {AssetKeyPartitionKey(k, instance_runs[id].partition_key) :
        k \in {key \in instance_runs[id].asset_selection :
                  \A i \in DOMAIN event_log :
                     ~(event_log[i].run_id = id /\ event_log[i].asset_key = key)}}

\* The FAILURE and CANCELED runs tagged with the backfill id.
FailedBackfillRuns ==
    {id \in DOMAIN instance_runs :
        /\ HasTag(instance_runs[id].tags, BACKFILL_ID_TAG, BackfillId)
        /\ instance_runs[id].status \in {"FAILURE", "CANCELED"}}

\* A step that runs an iteration other than the first.
NonFirstIterationStep ==
    /\ backfill_pc = "idle"
    /\ iterations' = iterations + 1
    /\ ~inner'.request_roots

\* C18: after every non-first iteration, the iteration's
\* failed_and_downstream_subset contains every planned-but-not-completed asset
\* partition of each FAILURE or CANCELED run of the backfill, and every
\* targeted child partition of a member is a member.
C18_FailedSubsetClosedDownstream ==
    [][NonFirstIterationStep =>
         LET failed == inner'.backfill_data.failed_and_downstream_subset
         IN /\ \A id \in FailedBackfillRuns : PlannedNotCompleted(id) \subseteq failed
            /\ \A member \in failed :
                 \A child \in get_children_partitions(asset_graph, member) :
                    child \in inner'.backfill_data.target_subset => child \in failed
    ]_vars

C18_Witness ==
    /\ iterations >= 2
    /\ backfill_pc = "submitting"
    /\ \E id \in FailedBackfillRuns :
         /\ instance_runs[id].status = "CANCELED"
         /\ \E member \in PlannedNotCompleted(id) :
              /\ member \in inner.backfill_data.failed_and_downstream_subset
              /\ \E child \in get_children_partitions(asset_graph, member) :
                   /\ child \in inner.backfill_data.target_subset
                   /\ child \notin PlannedNotCompleted(id)
                   /\ child \in inner.backfill_data.failed_and_downstream_subset

P1 == AssetKeyPartitionKey("a", "k1")
P2 == AssetKeyPartitionKey("b", "k1")
P3 == AssetKeyPartitionKey("c", "k1")

\* The backfill targets p1, p2 and p3; p1 has no parents; p2 and p3 each
\* depend on p1 alone and differ from it in partitions definition or in
\* repository, so neither can be in a run with it.
FanOutScenario ==
    /\ asset_backfill_data.target_subset = {P1, P2, P3}
    /\ get_parents_partitions(asset_graph, P1) = {}
    /\ \A p \in {P2, P3} :
         /\ get_parents_partitions(asset_graph, p) = {P1}
         /\ RequiredUnit(asset_graph, p) = {p}
         /\ \/ ~have_same_partitioning(asset_graph, P1.asset_key, p.asset_key)
            \/ get_repository_handle(asset_graph, P1.asset_key)
                 # get_repository_handle(asset_graph, p.asset_key)

\* C19: in the scenario above the first iteration requests exactly p1, and
\* the second iteration, when it observes the materialization of p1, requests
\* exactly p2 and p3.
C19_RootThenChildren ==
    FanOutScenario =>
      /\ iterations = 1 => inner.asset_partitions_to_request = {P1}
      /\ (iterations = 2 /\ P1 \in inner.backfill_data.materialized_subset)
           => inner.asset_partitions_to_request = {P2, P3}

C19_Witness ==
    /\ FanOutScenario
    /\ iterations = 2
    /\ P1 \in inner.backfill_data.materialized_subset
    /\ inner.asset_partitions_to_request = {P2, P3}
    /\ Len(instance_runs) = 3

\* C20: the stored backfill data is append-only from one iteration to the
\* next: target_subset never changes, requested_runs_for_target_roots never
\* goes back to false, latest_storage_id never goes back to an earlier value
\* or to none, and the requested, materialized and failed-and-downstream
\* subsets each contain those of the iteration before.
C20_BookkeepingAppendOnly ==
    [][LET old == asset_backfill_data
           new == asset_backfill_data'
       IN /\ new.target_subset = old.target_subset
          /\ old.requested_runs_for_target_roots => new.requested_runs_for_target_roots
          /\ old.latest_storage_id # Absent =>
                /\ new.latest_storage_id # Absent
                /\ new.latest_storage_id[1] >= old.latest_storage_id[1]
          /\ old.requested_subset \subseteq new.requested_subset
          /\ old.materialized_subset \subseteq new.materialized_subset
          /\ old.failed_and_downstream_subset \subseteq new.failed_and_downstream_subset
    ]_vars

\* The run created for the i-th run request submitted in the iteration.
RunOfRequest(i) == instance_runs[Len(instance_runs) - submitted + i]

\* C21: a run is created only while execute_asset_backfill_iteration stands
\* in its submission loop, that is after execute_asset_backfill_iteration_inner
\* was consumed to its result: the run is the one of the next run request of
\* that result, its asset partitions are among those the iteration accepted,
\* and the result does not change while runs are submitted.
C21_RunsSubmittedAfterInner ==
    [][Len(instance_runs') > Len(instance_runs) =>
         /\ backfill_pc = "submitting"
         /\ iterations >= 1
         /\ ~inner.raised
         /\ inner' = inner
         /\ inner.backfill_data.requested_subset
              = asset_backfill_data.requested_subset \cup inner.asset_partitions_to_request
         /\ submitted < Len(inner.run_requests)
         /\ Len(instance_runs') = Len(instance_runs) + 1
         /\ LET run == instance_runs'[Len(instance_runs')]
                run_request == inner.run_requests[submitted + 1]
            IN /\ run.asset_selection = run_request.asset_selection
               /\ run.partition_key = run_request.partition_key
               /\ \A k \in run.asset_selection :
                     AssetKeyPartitionKey(k, run.partition_key)
                        \in inner.asset_partitions_to_request
    ]_vars

C21_Witness ==
    /\ backfill_pc = "submitting"
    /\ iterations >= 2
    /\ Len(inner.run_requests) >= 2
    /\ submitted = 1
    /\ RunOfRequest(1).asset_selection = inner.run_requests[1].asset_selection

\* C23: every run request an iteration builds carries the backfill-id tag
\* with the id of the backfill, whatever the backfill's own tags hold under
\* that key, and every run created from a run request carries the tags of
\* the run request.
C23_RunsCarryBackfillIdTag ==
    /\ \A i \in DOMAIN inner.run_requests :
          /\ HasTag(inner.run_requests[i].tags, BACKFILL_ID_TAG, BackfillId)
          /\ \A key \in DOMAIN backfill_tags \ {BACKFILL_ID_TAG} :
                HasTag(inner.run_requests[i].tags, key, backfill_tags[key])
    /\ \A i \in 1..submitted : RunOfRequest(i).tags = inner.run_requests[i].tags
    /\ \A id \in DOMAIN instance_runs :
          HasTag(instance_runs[id].tags, BACKFILL_ID_TAG, BackfillId)

C23_Witness ==
    /\ BACKFILL_ID_TAG \in DOMAIN backfill_tags
    /\ backfill_tags[BACKFILL_ID_TAG] # BackfillId
    /\ submitted >= 1
    /\ HasTag(RunOfRequest(1).tags, BACKFILL_ID_TAG, BackfillId)

\* C24: in one iteration the external pipeline and execution plan are
\* fetched once for each distinct pipeline selector among the run requests
\* submitted so far, never twice for the same selector, and each run request
\* submitted has its own new run.
C24_FetchedOncePerSelector ==
    LET selectors == {PipelineSelector(asset_graph, inner.run_requests[i]) :
                         i \in 1..submitted}
    IN /\ \A i, j \in DOMAIN code_location_calls :
             code_location_calls[i] = code_location_calls[j] => i = j
       /\ {code_location_calls[i] : i \in DOMAIN code_location_calls} = selectors
       /\ Len(instance_runs) >= submitted
       /\ \A i \in 1..submitted :
             /\ RunOfRequest(i).asset_selection = inner.run_requests[i].asset_selection
             /\ RunOfRequest(i).partition_key = inner.run_requests[i].partition_key
             /\ RunOfRequest(i).pipeline_name
                  = PipelineSelector(asset_graph, inner.run_requests[i]).pipeline_name

C24_Witness ==
    /\ submitted = 2
    /\ Len(code_location_calls) = 1
    /\ PipelineSelector(asset_graph, inner.run_requests[1])
         = PipelineSelector(asset_graph, inner.run_requests[2])
    /\ RunOfRequest(1).partition_key # RunOfRequest(2).partition_key

\* C22: with the asset graph unchanged, deserializing what serialize produced
\* and serializing again gives the same storage dict, and deserializing
\* restores each of the six fields of the data that was serialized.
C22_SerializationRoundTrips ==
    /\ serialize(from_serialized(serialized_asset_backfill_data, asset_graph))
         = serialized_asset_backfill_data
    /\ (backfill_pc = "idle" /\ iterations >= 1) =>
         /\ serialized_asset_backfill_data = serialize(inner.backfill_data)
         /\ asset_backfill_data = inner.backfill_data
    /\ \A data \in {asset_backfill_data, inner.backfill_data} :
         from_serialized(serialize(data), asset_graph) = data

C22_Witness ==
    /\ backfill_pc = "idle"
    /\ iterations >= 2
    /\ asset_backfill_data.materialized_subset # {}
    /\ asset_backfill_data.failed_and_downstream_subset # {}
    /\ asset_backfill_data.requested_subset # asset_backfill_data.target_subset
    /\ asset_backfill_data.requested_subset # asset_backfill_data.materialized_subset
    /\ asset_backfill_data.latest_storage_id # Absent
    /\ serialized_asset_backfill_data = serialize(asset_backfill_data)

\* ------------------------------------------- claims, repository data builder

\* The jobs, graphs and unresolved asset jobs of the list.
ListedJobKindDefinitions ==
    {repository_definitions[i] :
        i \in {j \in DOMAIN repository_definitions :
                  repository_definitions[j].kind \in JobKinds}}

\* The targets of the schedules and sensors of the list.
ListedTargets ==
    {repository_definitions[i].target[1] :
        i \in {j \in DOMAIN repository_definitions :
                  /\ repository_definitions[j].kind \in TargeterKinds
                  /\ repository_definitions[j].target # Absent}}

\* Two definitions of one name that are not the same definition.
StructurallyDifferent(a, b) ==
    a.name = b.name /\ (a.kind # b.kind \/ a.body # b.body)

\* C25: when a schedule or sensor targets a graph, unresolved asset job or
\* job whose name is that of a structurally different definition registered
\* from the list or from another target, the builder does not return a
\* repository; the targets of a returned repository are registered under
\* their names.
C25_ConflictingTargetRejected ==
    builder_pc = "returned" =>
      /\ \A target \in ListedTargets :
            \A registered \in ListedJobKindDefinitions \cup ListedTargets :
               ~StructurallyDifferent(target, registered)
      /\ \A target \in ListedTargets : target.name \in DOMAIN repository_data[1].jobs

\* C26: a repository is returned only if no two different jobs, graphs or
\* unresolved asset jobs of the list share a name and no two schedules or
\* sensors of the list share a name, at whatever positions of the list they
\* stand.
C26_NamesUniqueInAnyOrder ==
    builder_pc = "returned" =>
      \A i, j \in DOMAIN repository_definitions :
         LET a == repository_definitions[i]
             b == repository_definitions[j]
         IN /\ (a.kind \in JobKinds /\ b.kind \in JobKinds) => ~StructurallyDifferent(a, b)
            /\ (i # j /\ a.kind \in TargeterKinds /\ b.kind \in TargeterKinds)
                  => a.name # b.name

\* C27: a repository is returned only if no job of its final job set lacks a
\* resource key it requires, the final job set holding every coerced graph,
\* resolved asset job and schedule or sensor target registered, also after
\* the copies made for the default executor and loggers; when a job lacks
\* "db" after resolution the builder raises an error naming "db"; and unless
\* the builder returns, there is no repository data.
C27_ReturnedJobsHaveResources ==
    /\ builder_pc = "returned" =>
         /\ repository_data # Absent
         /\ DOMAIN repository_data[1].jobs
              = DOMAIN pipelines_or_jobs \cup DOMAIN coerced_graphs
                  \cup DOMAIN unresolved_jobs
         /\ \A name \in DOMAIN repository_data[1].jobs :
               /\ repository_data[1].jobs[name].body # "needs_db"
               /\ repository_data[1].jobs[name].body = pipelines_or_jobs[name].body
    /\ builder_pc # "returned" => repository_data = Absent
    /\ builder_pc = "defaults" =>
         \A name \in DOMAIN pipelines_or_jobs : pipelines_or_jobs[name].body # "needs_db"
    /\ (builder_pc = "raised" /\ builder_raised[1].names = <<"db">>) =>
         \E name \in DOMAIN pipelines_or_jobs : pipelines_or_jobs[name].body = "needs_db"

C27_Witness ==
    /\ builder_pc = "raised"
    /\ builder_raised[1].names = <<"db">>
    /\ repository_data = Absent
    /\ \E name \in DOMAIN unresolved_jobs :
          /\ pipelines_or_jobs[name].kind = "unresolved_asset_job"
          /\ pipelines_or_jobs[name].body = "needs_db"
          /\ \E target \in ListedTargets : target.name = name

\* ------------------------------------------------------- claims, subsetting

\* The names a dependency definition refers to.
ReferencedNodes(dependency) == SeqRange(dependency.nodes)

\* The nodes whose outputs a graph connects to the input of a node.
Upstream(graph, n, input_name) ==
    IF input_name \in DOMAIN graph.dependencies[n]
    THEN ReferencedNodes(graph.dependencies[n][input_name])
    ELSE {}

\* result has the nodes of selected and no others, refers to no other node,
\* and keeps of every dependency of graph what lies within selected.
ProjectsOnto(result, graph, selected) ==
    /\ SeqRange(result.node_names) = selected
    /\ DOMAIN result.node_defs = selected
    /\ DOMAIN result.dependencies = selected
    /\ \A n \in selected : \A input_name \in DOMAIN result.dependencies[n] :
          /\ ReferencedNodes(result.dependencies[n][input_name]) \subseteq selected
          /\ input_name \in DOMAIN graph.dependencies[n]
          /\ result.dependencies[n][input_name].type = graph.dependencies[n][input_name].type
    /\ \A n \in selected : \A input_name \in graph.node_defs[n].input_names :
          Upstream(result, n, input_name) = Upstream(graph, n, input_name) \cap selected
    /\ \A m \in result.input_mappings : m.maps_to.node_name \in selected
    /\ \A m \in result.output_mappings : m.maps_from.node_name \in selected

\* A selected node has an upstream node that is not selected.
DropsDependency(graph, selected) ==
    \E n \in selected : \E input_name \in DOMAIN graph.dependencies[n] :
       ~(ReferencedNodes(graph.dependencies[n][input_name]) \subseteq selected)

\* C28: the graph get_subselected_graph_definition(G, S) returns, and the
\* graph of the pipeline _get_pipeline_subset_def returns, have exactly the
\* nodes of S; their direct, fan-in and dynamic fan-in dependencies and their
\* input and output mappings refer to nodes of S only; what a selected node
\* depended on outside S is dropped and what it depended on inside S is
\* kept; the nodes of a nested graph selected in part are narrowed the same
\* way; and the result points to G, which is as it was given.
C28_SubsetIsProjection ==
    /\ sub_graph # Absent =>
         LET graph == parent_def.graph
             result == sub_graph[1]
             selected == DOMAIN op_selection
         IN /\ ProjectsOnto(result, graph, selected)
            /\ result.parent_graph_def = Some(graph)
            /\ graph \in ParentGraphs
            /\ result.input_mappings
                 = {m \in graph.input_mappings : m.maps_to.node_name \in selected}
            /\ result.output_mappings
                 = {m \in graph.output_mappings : m.maps_from.node_name \in selected}
            /\ \A n \in selected :
                  IF graph.node_defs[n].kind = "graph" /\ ~op_selection[n].leaf
                  THEN ProjectsOnto(result.node_defs[n].graph, graph.node_defs[n].graph,
                                    DOMAIN op_selection[n].selection)
                  ELSE result.node_defs[n] = graph.node_defs[n]
    /\ (subset_def # Absent /\ subset_def[1].class = "PipelineSubsetDefinition") =>
         /\ ProjectsOnto(subset_def[1].graph, parent_def.graph, op_selection[1])
         /\ subset_def[1].parent = Some(parent_def)
         /\ parent_def.graph \in ParentGraphs

C28_Witness ==
    /\ subset_pc = "subset"
    /\ sub_graph # Absent
    /\ DOMAIN op_selection = {"b", "c"}
    /\ parent_def.graph.dependencies["b"] = InputDependencies(Some(DependencyDefinition("a")))
    /\ parent_def.graph.dependencies["c"]
         = InputDependencies(Some(MultiDependencyDefinition(<<"a", "b">>)))
    /\ parent_def.graph.output_mappings # {}
    /\ sub_graph[1].dependencies["b"] = NoDependencies
    /\ sub_graph[1].dependencies["c"] = InputDependencies(Some(MultiDependencyDefinition(<<"b">>)))
    /\ subset_def # Absent

\* Nodes, dependencies and mappings of a graph, and of the graphs that are
\* its nodes, without the graphs they were narrowed from.
RECURSIVE Structure(_)
Structure(graph) ==
    [node_names |-> graph.node_names,
     dependencies |-> graph.dependencies,
     input_mappings |-> graph.input_mappings,
     output_mappings |-> graph.output_mappings,
     node_defs |-> [n \in DOMAIN graph.node_defs |->
                       IF graph.node_defs[n].kind = "graph"
                       THEN [kind |-> "graph", loadable |-> graph.node_defs[n].loadable,
                             structure |-> Structure(graph.node_defs[n].graph)]
                       ELSE [kind |-> "op", loadable |-> graph.node_defs[n].loadable,
                             structure |-> graph.node_defs[n].input_names]]]

\* Narrowing the definition returned to the same selection returned a
\* definition with the same nodes, dependencies and mappings.
NarrowedAgainToTheSame ==
    /\ resubset_raised = Absent
    /\ resubset_def # Absent
    /\ Structure(resubset_def[1].graph) = Structure(subset_def[1].graph)

\* C29, as stated: narrowing the result of a narrowing to the same selection
\* succeeds and gives the same nodes, dependencies and mappings, for jobs and
\* for pipelines.
C29_Original_SubsetIdempotent ==
    subset_pc = "again" => NarrowedAgainToTheSame

\* C29: narrowing the job that _get_job_def_for_op_selection returned to the
\* same selection succeeds and gives a job whose graph has the same nodes,
\* dependencies and input and output mappings; a PipelineSubsetDefinition is
\* not narrowed again: its get_pipeline_subset_def raises
\* DagsterInvariantViolationError and returns nothing.
C29_JobSubsetIdempotent ==
    subset_pc = "again" =>
       IF subset_def[1].class = "PipelineSubsetDefinition"
       THEN /\ resubset_def = Absent
            /\ resubset_raised = Some(DagsterInvariantViolationError)
       ELSE NarrowedAgainToTheSame

C29_Witness ==
    /\ subset_pc = "again"
    /\ parent_def.class = "JobDefinition"
    /\ DOMAIN op_selection = {"b", "c"}
    /\ DropsDependency(parent_def.graph, {"b", "c"})
    /\ parent_def.graph.node_defs["c"].kind = "graph"
    /\ ~op_selection["c"].leaf
    /\ resubset_def # Absent
    /\ resubset_def[1].parent = subset_def
    /\ subset_def[1].parent = Some(parent_def)

\* The nodes selected of a definition.
SelectedNames ==
    IF parent_def.class = "JobDefinition" THEN DOMAIN op_selection
    ELSE IF op_selection = Absent THEN {} ELSE op_selection[1]

\* The definition narrowed to the selection has a node whose input cannot
\* be loaded from config and has lost what it was connected to: its upstream
\* node is not selected, or, in a pipeline subset, it was mapped to an input
\* of the graph.
NarrowingLeavesInputUnresolved ==
    /\ SelectedNames # {}
    /\ SelectedNames \subseteq SeqRange(parent_def.graph.node_names)
    /\ \E n \in SelectedNames :
          /\ ~parent_def.graph.node_defs[n].loadable
          /\ \E input_name \in parent_def.graph.node_defs[n].input_names :
                \/ /\ input_name \in DOMAIN parent_def.graph.dependencies[n]
                   /\ parent_def.graph.dependencies[n][input_name].type # "fan_in"
                   /\ Upstream(parent_def.graph, n, input_name) \cap SelectedNames = {}
                \/ /\ input_name \notin DOMAIN parent_def.graph.dependencies[n]
                   /\ parent_def.class = "PipelineDefinition"

\* C30: what _get_job_def_for_op_selection and get_pipeline_subset_def raise
\* is never a DagsterInvalidDefinitionError; when the narrowed definition is
\* invalid they raise a DagsterInvalidSubsetError that names the selection
\* and has the definition error as its cause, and return nothing; the parent
\* definition is the one given.
C30_DefinitionErrorWrapped ==
    subset_pc \in {"subset", "again"} =>
       /\ subset_raised # Absent =>
             /\ subset_raised[1].type = "DagsterInvalidSubsetError"
             /\ subset_def = Absent
       /\ resubset_raised # Absent =>
             subset_raised = Absent /\ resubset_raised[1].type # "DagsterInvalidDefinitionError"
       /\ NarrowingLeavesInputUnresolved <=>
             subset_raised = Some(DagsterInvalidSubsetError(SelectedNames,
                                     Some("DagsterInvalidDefinitionError")))
       /\ parent_def.parent = Absent
       /\ parent_def.graph \in ParentGraphs

C30_Witness ==
    /\ subset_pc = "subset"
    /\ parent_def.class = "JobDefinition"
    /\ NarrowingLeavesInputUnresolved
    /\ sub_graph # Absent
    /\ subset_def = Absent
    /\ subset_raised # Absent
    /\ subset_raised[1].names = {"c"}
    /\ subset_raised[1].cause = Some("DagsterInvalidDefinitionError")

\* ------------------------------------------- claims, in-memory storages

\* C31: between two disposals of an in-memory storage at most one connection
\* is created, and every call of connect, run_connection, index_connection or
\* has_table, also when calls of several threads interleave, is given a
\* connection that is not None and not closed when it is given.
C31_OneLiveConnection ==
    /\ created_since_dispose <= 1
    /\ \A t \in DOMAIN yielded_conn :
          yielded_conn[t] # Absent =>
             /\ yielded_conn[t][1].conn # YieldedNone
             /\ yielded_conn[t][1].live

\* ---------------------------------------------------- claims, schema cache

\* C32: for calls of get_run_config_schema that interleave in any way, the
\* cache entry of a mode is assigned at most once, one schema is created for
\* the mode, and all calls for the mode return the same schema.
C32_SchemaPopulatedOnce ==
    /\ \A mode \in DOMAIN schema_stores : schema_stores[mode] <= 1
    /\ \A i, j \in DOMAIN created_schemas : created_schemas[i] = created_schemas[j] => i = j
    /\ \A r1, r2 \in schema_returns : r1.mode = r2.mode => r1.schema = r2.schema

\* ------------------------------------------- claims, run iterator, continued

\* C33: every event the executor stream has given, also each one after a
\* step failure, is forwarded in its place after the start event; while the
\* stream is open nothing else is yielded; and a terminal run event is
\* yielded only once the stream is exhausted or has raised, after all the
\* events of the stream.
C33_StepFailureDoesNotEndRun ==
    /\ \A i \in DOMAIN stream :
          /\ StartCount + i <= Len(yielded)
          /\ yielded[StartCount + i] = stream[i]
    /\ stream_end = "open" => Len(yielded) <= StartCount + Len(stream)
    /\ \A i \in DOMAIN yielded :
          IsTerminal(yielded[i]) =>
             /\ stream_end # "open"
             /\ i = StartCount + Len(stream) + 1

C33_Witness ==
    /\ stream_end = "exhausted"
    /\ Len(stream) = 2
    /\ is_step_failure(stream[1])
    /\ stream[1].step_key = "s1"
    /\ stream[2] = Ev("STEP_SUCCESS", "s2")
    /\ Len(yielded) = StartCount + 3
    /\ yielded[StartCount + 2] = Ev("STEP_SUCCESS", "s2")
    /\ Last(yielded).event_type = "PIPELINE_FAILURE"

\* ------------------------------------------- claims, entry points, continued

\* execute_run_iterator was called without resume_from_failure on a run
\* whose status is neither NOT_STARTED nor STARTING.
DuplicateWorkerCall ==
    /\ entry = "execute_run_iterator"
    /\ ~resume_from_failure
    /\ dagster_run.status \notin {"NOT_STARTED", "STARTING"}
    /\ entry_pc # "call"

\* C37: execute_run_iterator called without resume_from_failure on a run
\* whose status is neither NOT_STARTED nor STARTING never builds a plan or
\* executes a step: the generator it returns yields a single engine event
\* when the run is CANCELED, finished, or run monitoring is enabled, and
\* otherwise an engine event followed by exactly one run-failed report.
C37_DuplicateWorkerNeverExecutes ==
    DuplicateWorkerCall =>
      /\ entry_pc \in {"generator", "done"}
      /\ entry_raised = None
      /\ execution_plan = NoPlan
      /\ pc = "not_started"
      /\ emitted = <<>>
      /\ LET single == \/ dagster_run.status = "CANCELED"
                       \/ is_finished(dagster_run.status)
                       \/ run_monitoring_enabled
             all == IF single THEN <<EngineEvent>>
                    ELSE <<EngineEvent, RunFailureEvent>>
         IN /\ Len(instance_events) <= Len(all)
            /\ instance_events = SubSeq(all, 1, Len(instance_events))
            /\ entry_pc = "done" => instance_events = all
            /\ instance_run_status =
                 IF RunFailureEvent \in SeqRange(instance_events)
                   THEN "FAILURE" ELSE dagster_run.status

C37_Witness ==
    /\ DuplicateWorkerCall
    /\ dagster_run.status = "STARTED"
    /\ ~run_monitoring_enabled
    /\ entry_pc = "done"
    /\ instance_events = <<EngineEvent, RunFailureEvent>>

\* ------------------------------------------------ claims, __iter__, continued

\* Where an event of __iter__ comes from, in the order of the code.
OriginRank(origin) ==
    IF origin = "prepare" THEN 1 ELSE IF origin = "iterator" THEN 2 ELSE 3

CountOf(origin) == Cardinality({i \in DOMAIN emitted : emitted[i] = origin})

\* prepare_context() ended without a context: get_context() gave None.
ContextPreparationFailed ==
    /\ ~pipeline_context
    /\ pc \in {"shutdown", "shutdown_yield", "finished"}
    /\ closed_at # "prepare_yield"

\* C39: in ExecuteRunWithPlanIterable.__iter__ all context-preparation events
\* precede all events of the run iterator, which precede all shutdown-context
\* events; when context preparation gives no context the run iterator is
\* never started, so no run start, step or terminal event is yielded, yet
\* every event of shutdown_context() is yielded.
C39_PrepareIteratorShutdownOrder ==
    /\ \A i, j \in DOMAIN emitted :
         i < j => OriginRank(emitted[i]) <= OriginRank(emitted[j])
    /\ CountOf("prepare") = prepared
    /\ CountOf("iterator") = Len(yielded)
    /\ ContextPreparationFailed =>
         /\ yielded = <<>>
         /\ stream = <<>>
         /\ stream_end = "open"
         /\ CountOf("iterator") = 0
         /\ CountOf("shutdown") = shutdown_n

C39_Witness ==
    /\ ContextPreparationFailed
    /\ pc = "finished"
    /\ emitted = <<"prepare", "shutdown">>

\* ------------------------------------------------------ claims, re-execution

\* The runs created by _reexecute_job.
Reexecutions == {i \in DOMAIN run_records : run_records[i].reexecutes # Absent}

\* The first run of the chain a run belongs to.
RECURSIVE Original(_)
Original(i) ==
    IF run_records[i].reexecutes = Absent THEN i
    ELSE Original(run_records[i].reexecutes[1])

\* C38: every run created by _reexecute_job has parent_run_id equal to the id
\* of the run it re-executes and root_run_id equal to the id of the first
\* run of its chain, so the root is the same all along a chain; and
\* ReexecutionOptions.from_failure gives options only for a parent whose
\* status is FAILURE.
C38_ReexecutionChainRoot ==
    /\ \A i \in Reexecutions :
         LET run == run_records[i]
             parent == run_records[run.reexecutes[1]]
         IN /\ run.parent_run_id = Some(parent.run_id)
            /\ run.root_run_id = Some(Original(i))
            /\ parent.root_run_id # Absent => run.root_run_id = parent.root_run_id
            /\ run_records[run.root_run_id[1]].root_run_id = Absent
    /\ reexecution_options # Absent =>
         /\ reexecution_options[1].parent_run_id \in DOMAIN run_records
         /\ run_records[reexecution_options[1].parent_run_id].status = "FAILURE"

C38_Witness ==
    /\ Len(run_records) = 4
    /\ run_records[3].reexecutes = Some(2)
    /\ run_records[4].reexecutes = Some(3)
    /\ run_records[4].root_run_id = Some(2)
    /\ run_records[4].status = "FAILURE"
    /\ reexecution_options = Some([parent_run_id |-> 4])

\* ---------------------------------------------------- claims, event watches

\* C40: store_event calls, exactly once and with the cursor of the event's
\* storage id, every callback that was watching the event's run id when the
\* event was stored, and no other callback; the storage id goes up by one
\* with every stored event; an exception of a callback does not leave
\* store_event and does not keep the other callbacks from being called; and
\* a callback is called if and only if its watch of the run id was in force
\* when the event was stored: set up, and not ended since by end_watch, be
\* it from inside a callback.
C40_EachWatcherCalledOnce ==
    /\ storage_id = Len(stored_events)
    /\ ~store_event_raised
    /\ deliveries # Absent =>
         LET d == deliveries[1]
         IN /\ d.storage_id = storage_id
            /\ d.run_id = stored_events[d.storage_id]
            /\ \A c \in Callbacks :
                 /\ c \in d.watching => d.calls[c] = <<Cursor(d.storage_id)>>
                 /\ c \notin d.watching => d.calls[c] = <<>>
                 /\ c \in d.unwatched <=> d.calls[c] = <<>>

\* The second event of a run finds the raising callback still watching and
\* the two others ended from inside a callback at the first event.
C40_Witness ==
    /\ deliveries # Absent
    /\ deliveries[1].storage_id = 2
    /\ stored_events = <<"r1", "r1">>
    /\ deliveries[1].watching = {"raises"}
    /\ deliveries[1].unwatched = {"returns", "ends_watch"}
    /\ handlers["r2"] = {"returns", "ends_watch"}
    /\ deliveries[1].calls["raises"] = <<Cursor(2)>>

\* ---------------------------------------------- claims, backfill, continued

\* C34: whatever the iterations and the order in which materializations
\* arrive, an asset partition that is in the stored requested_subset is not
\* in asset_partitions_to_request of a later iteration: no asset partition
\* gets a second run request from the backfill.
C34_RequestedOnce ==
    backfill_pc = "submitting" =>
      inner.asset_partitions_to_request \cap asset_backfill_data.requested_subset = {}

\* The runs the backfill has submitted for an asset partition.
RunsFor(ap) ==
    {id \in DOMAIN instance_runs :
        /\ HasTag(instance_runs[id].tags, BACKFILL_ID_TAG, BackfillId)
        /\ instance_runs[id].partition_key = ap.partition_key
        /\ ap.asset_key \in instance_runs[id].asset_selection}

\* C35: an iteration abandoned at one of its yield points, the one between
\* two run submissions included, and run again from the stored backfill data
\* submits no second run for an asset partition: the stored data and the
\* submitted runs agree whenever an iteration starts.
C35_ResumedIterationSubmitsOnce ==
    /\ \A ap \in AssetPartitions : Cardinality(RunsFor(ap)) <= 1
    /\ backfill_pc = "idle" =>
         \A ap \in AssetPartitions :
            RunsFor(ap) # {} => ap \in asset_backfill_data.requested_subset

\* C36: if iterations keep being executed and every submitted run finishes,
\* having materialized all it planned or as FAILURE or CANCELED, a backfill
\* whose first iteration did not fail reaches a state where is_complete()
\* holds and it is marked COMPLETED; no targeted partition stays for ever
\* neither requested, nor materialized, nor failed or downstream of a failure.
C36_BackfillCompletes ==
    <>(\/ backfill_pc = "failed"
       \/ /\ backfill_status = "COMPLETED"
          /\ is_complete(asset_backfill_data))

====
